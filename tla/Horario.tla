------------------------------ MODULE Horario -------------------------------
(***************************************************************************)
(* Seminars as data, the schedule test of SeminarioBean and the relation   *)
(* between two bookings it is meant to decide.                             *)
(***************************************************************************)
EXTENDS Integers

CONSTANTS
    Titulos, TitulosLongos,  \* titles, and those above 280 characters
    Locais, LocaisLongos,    \* rooms as typed (trimmed), and those above 45
    Sala,                    \* the room as typed, letter case removed
    Dias, Horas              \* days and times of day, as numbers

ASSUME HorarioAssumption ==
    /\ TitulosLongos \subseteq Titulos
    /\ LocaisLongos \subseteq Locais
    /\ DOMAIN Sala = Locais
    /\ Dias \subseteq Int
    /\ Horas \subseteq Int

\* A seminar without its id.
Seminarios == [titulo : Titulos, local : Locais, data : Dias,
               ini : Horas, fim : Horas]

MesmoLugarEDia(s, e) == s.data = e.data /\ Sala[s.local] = Sala[e.local]

\* Mutant of Conflito: bookings with the same start or end are let through.
ConflitoAberto(s, e) ==
    /\ MesmoLugarEDia(s, e)
    /\ \/ s.ini < e.ini /\ s.fim > e.ini
       \/ s.ini < e.fim /\ s.fim > e.fim

\* hasScheduleConflict(): s is in the list, e is the object under edition.
Conflito(s, e) ==
    /\ MesmoLugarEDia(s, e)
    /\ \/ s.ini < e.ini /\ s.fim > e.ini
       \/ s.ini < e.fim /\ s.fim > e.fim
       \/ s.ini = e.ini
       \/ s.fim = e.fim

-----------------------------------------------------------------------------
\* Reference: the two bookings share some time in the same room.
Sobrepoe(s, e) ==
    MesmoLugarEDia(s, e) /\ s.ini < e.fim /\ e.ini < s.fim

\* Booking e starts before and ends after booking s.
Contem(e, s) == e.ini < s.ini /\ s.fim < e.fim

=============================================================================
