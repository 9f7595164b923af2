------------------------------- MODULE Agenda -------------------------------
(***************************************************************************)
(* What the seminar page promises a user who is alone: every booking is    *)
(* checked against the bookings that exist at that moment, with the test   *)
(* of hasScheduleConflict().                                               *)
(***************************************************************************)
EXTENDS Horario

CONSTANTS Chaves, Nulo

VARIABLE agenda

AgendaInit == agenda = [i \in Chaves |-> Nulo]

\* No other booking is found to be in conflict with r under id i.
Livre(i, r) ==
    \A j \in Chaves \ {i} : agenda[j] # Nulo => ~Conflito(agenda[j], r)

Marca(i, r) ==
    /\ r.ini < r.fim
    /\ Livre(i, r)
    /\ agenda' = [agenda EXCEPT ![i] = r]

Desmarca(i) ==
    /\ agenda[i] # Nulo
    /\ agenda' = [agenda EXCEPT ![i] = Nulo]

AgendaNext ==
    \E i \in Chaves : Desmarca(i) \/ \E r \in Seminarios : Marca(i, r)

AgendaSpec == AgendaInit /\ [][AgendaNext]_agenda

=============================================================================
