----------------------------- MODULE Seminario ------------------------------
(***************************************************************************)
(* The seminar page of the SMR module: SeminarioBean over the table        *)
(* smr_seminario.  Tela gives the list, the dialog and the database; here  *)
(* are the validations of persist(), the day the bean was built on and     *)
(* what the page promises.                                                 *)
(***************************************************************************)
EXTENDS Tela, Horario

ASSUME SeminarioAssumption == Registros \subseteq Seminarios

VARIABLES
    today,  \* the field of each session's bean: the day it was built on
    hoje    \* the day it is

vars == <<tabela, proximo, bean, dialogo, falhas, today, hoje>>

TypeOK ==
    /\ TelaTypeOK
    /\ ElementosCertos
    /\ today \in [Sessoes -> Dias]
    /\ hoje \in Dias

Init ==
    /\ TelaInit
    /\ hoje \in Dias
    /\ \A d \in Dias : hoje <= d
    /\ today = [s \in Sessoes |-> hoje]

\* The value of the field today in the bean a request works on.
Today(s) == IF bean[s] = Nulo THEN hoje ELSE today[s]

\* A request that builds the bean on demand also sets its day.
AnotaDia(s) == today' = [today EXCEPT ![s] = Today(s)]

-----------------------------------------------------------------------------
\* Mutant of Recusado: the times may be in any order.
RecusadoSemHorario(s, b, f) ==
    \/ f.titulo \in TitulosLongos
    \/ f.local \in LocaisLongos
    \/ \E i \in Ids \ {b.id} : b.lista[i] # Nulo /\ Conflito(b.lista[i], f)
    \/ f.data < Today(s)

\* Mutants of Recusado: the list is searched only for a new seminar; a
\* seminar may be of the day before.
RecusadoSoNovo(s, b, f) ==
    \/ f.ini >= f.fim
    \/ f.titulo \in TitulosLongos
    \/ f.local \in LocaisLongos
    \/ b.id = Nulo /\ \E i \in Ids : b.lista[i] # Nulo /\ Conflito(b.lista[i], f)
    \/ f.data < Today(s)
RecusadoComOntem(s, b, f) ==
    \/ f.ini >= f.fim
    \/ f.titulo \in TitulosLongos
    \/ f.local \in LocaisLongos
    \/ \E i \in Ids \ {b.id} : b.lista[i] # Nulo /\ Conflito(b.lista[i], f)
    \/ f.data + 1 < Today(s)

\* The validations of persist(), in any order: each of them ends the same way.
Recusado(s, b, f) ==
    \/ f.ini >= f.fim
    \/ f.titulo \in TitulosLongos
    \/ f.local \in LocaisLongos
    \/ \E i \in Ids \ {b.id} : b.lista[i] # Nulo /\ Conflito(b.lista[i], f)
    \/ f.data < Today(s)

\* Mutant of Recusa: the list is not read again.
RecusaSemLer(t, f) ==
    LET s == SessaoDe[t]
        b == Submetido(s, f) IN
    /\ ~SemDialogo(t)
    /\ Recusado(s, b, f)
    /\ bean' = [bean EXCEPT ![s] = b]
    /\ UNCHANGED <<tabela, proximo, dialogo, falhas>>

\* persist() refuses the form: it warns, reads the list again and returns.
\* When that reading fails the list keeps the refused values.
Recusa(t, f) ==
    LET s == SessaoDe[t]
        b == Submetido(s, f) IN
    /\ ~SemDialogo(t)
    /\ Recusado(s, b, f)
    /\ \/ bean' = [bean EXCEPT ![s] = Refrescado(b, tabela)] /\ UNCHANGED falhas
       \/ bean' = [bean EXCEPT ![s] = b] /\ Falha
    /\ UNCHANGED <<tabela, proximo, dialogo>>

\* persist() accepts the form.
Salva(t, f) ==
    LET s == SessaoDe[t]
        b == Submetido(s, f) IN
    /\ ~SemDialogo(t)
    /\ ~Recusado(s, b, f)
    /\ Grava(t, b, f) \/ NaoGrava(t, b)

Persiste(t, f) == Recusa(t, f) \/ Salva(t, f)

\* Midnight: no bean notices.
ViraODia ==
    /\ hoje' = hoje + 1
    /\ hoje' \in Dias
    /\ UNCHANGED <<tabela, proximo, bean, dialogo, falhas, today>>

\* A bean built by the request that loads the page is built today.
Abre(t) ==
    /\ AbrePagina(t)
    /\ today' = [today EXCEPT ![SessaoDe[t]] = hoje]
    /\ UNCHANGED hoje

\* Any other request of a tab.
Opera(t) ==
    /\ Navega(t) \/ \E f \in Registros : Persiste(t, f)
    /\ AnotaDia(SessaoDe[t])
    /\ UNCHANGED hoje

Encerra(s) == Expira(s) /\ UNCHANGED <<today, hoje>>

Next ==
    \/ \E t \in Abas : Abre(t) \/ Opera(t)
    \/ \E s \in Sessoes : Encerra(s)
    \/ ViraODia

Spec == Init /\ [][Next]_vars

-----------------------------------------------------------------------------
(* What holds for one session and a database that answers *)

\* The list a session shows is the table, at the end of every request: the
\* values typed into an element of the list never survive the request, be
\* they accepted or refused (SeminarioBean.persist, the refresh() calls).
ListaEmDia == \A s \in Sessoes : EmDia(s)

\* Two bookings of a room on a day share time only when the later one starts
\* before and ends after the earlier (SeminarioBean.hasScheduleConflict).
SemSobreposicaoParcial ==
    \A i, j \in Ids :
        i # j /\ tabela[i] # Nulo /\ tabela[j] # Nulo
              /\ Sobrepoe(tabela[i], tabela[j])
            => Contem(tabela[i], tabela[j]) \/ Contem(tabela[j], tabela[i])

\* The list held in the session is as good as the table: every save is one
\* atomic booking, checked against the bookings of that moment.
Ag == INSTANCE Agenda WITH agenda <- tabela, Chaves <- Ids
ImplementaAgenda == Ag!AgendaSpec

(* What holds for any sessions, days and failures *)

\* A session never spoils its own list: whatever its tabs do with one object
\* under edition, and whatever is refused or was deleted by others, a list that
\* is the table gets old only by a failure or by what another session writes
\* (every return of SeminarioBean.persist and delete reads the list again, or
\* has not touched it).
SoPorForaEnvelhece == [][EnvelhecePorFora]_vars

\* A seminar comes to share time with another one only through a save of its
\* form, and only because it contains that one, which hasScheduleConflict()
\* misses, or because the list of the session that saves it has not that one
\* as it is in the table (the list of SeminarioBean, read when the bean was
\* built or last refreshed).
SobreposicaoExplicada ==
    [][\A i, j \in Ids :
        i # j /\ tabela'[i] \notin {Nulo, tabela[i]} /\ tabela[j] # Nulo
              /\ Sobrepoe(tabela[j], tabela'[i])
            => \E t \in Abas :
                  /\ Salva(t, tabela'[i])
                  /\ \/ Contem(tabela'[i], tabela[j])
                     \/ Bean(SessaoDe[t]).lista[j] # tabela[j]]_vars

\* A seminar is saved on a day that is over only by a session whose bean was
\* built before that day was over (the field today of SeminarioBean).
DiaVencidoExplicado ==
    [][\A i \in Ids :
        tabela'[i] \notin {Nulo, tabela[i]} /\ tabela'[i].data < hoje
            => \E t \in Abas :
                  /\ Salva(t, tabela'[i])
                  /\ bean[SessaoDe[t]] # Nulo /\ today[SessaoDe[t]] <= tabela'[i].data]_vars

(* What the page says of itself *)

\* "Conflito de horario. Ja existe um seminario registrado nessa data, sala e
\* nesse periodo de horario": no room is booked twice at the same time.
SemReservaDupla ==
    \A i, j \in Ids :
        i # j /\ tabela[i] # Nulo /\ tabela[j] # Nulo
            => ~Sobrepoe(tabela[i], tabela[j])

=============================================================================
