----------------------------- MODULE Monitoria ------------------------------
(***************************************************************************)
(* The monitoring-class page of the MTR module: TurmaMonitoriaBean over    *)
(* the table mtr_turma_monitoria.  It is the screen of Tela with one       *)
(* validation, which refuses a form without reading the list again.        *)
(***************************************************************************)
EXTENDS Tela

CONSTANT Horas  \* times of day, as numbers

\* What the checks read of a TurmaMonitoria; its course, room and day of the
\* week are carried by turma.
CONSTANT Turmas
Turma == [turma : Turmas, ini : Horas, fim : Horas]

ASSUME MonitoriaAssumption == Horas \subseteq Int /\ Registros \subseteq Turma

Init == TelaInit

-----------------------------------------------------------------------------
\* The only validation of persist(): equal times pass.
Invertida(f) == f.ini > f.fim

\* create(), update() and delete() of the page.
Cria(t) == Adiciona(t)
Altera(t, i) == Edita(t, i)
Exclui(t, i) == ExcluiExistente(t, i) \/ ExcluiSemEfeito(t, i)

\* persist() refuses the form: it warns and returns, and the element of the
\* list keeps the refused values.
Recusa(t, f) ==
    /\ ~SemDialogo(t)
    /\ Invertida(f)
    /\ bean' = [bean EXCEPT ![SessaoDe[t]] = Submetido(SessaoDe[t], f)]
    /\ UNCHANGED <<tabela, proximo, dialogo, falhas>>

\* persist() accepts the form.
Salva(t, f) ==
    LET b == Submetido(SessaoDe[t], f) IN
    /\ ~SemDialogo(t)
    /\ ~Invertida(f)
    /\ Grava(t, b, f) \/ NaoGrava(t, b)

Persiste(t, f) == Recusa(t, f) \/ Salva(t, f)

Next ==
    \/ \E t \in Abas :
          \/ AbrePagina(t)
          \/ SaiDaPagina(t)
          \/ FechaDialogo(t)
          \/ Cria(t)
          \/ \E i \in Ids : Altera(t, i) \/ Exclui(t, i)
          \/ \E f \in Registros : Persiste(t, f)
    \/ \E s \in Sessoes : Expira(s)

Spec == Init /\ [][Next]_telaVars

-----------------------------------------------------------------------------
\* One session, until the database fails: the list shows each row as it is or
\* as it was last refused; refused values never reach the table, and an
\* element without a row, or a row without an element, is never shown.
DivergeSoRecusada ==
    \A s \in Sessoes, i \in Ids :
        falhas = 0 /\ bean[s] # Nulo /\ bean[s].lista[i] # tabela[i] =>
            /\ bean[s].lista[i] # Nulo /\ tabela[i] # Nulo
            /\ Invertida(bean[s].lista[i]) /\ ~Invertida(tabela[i])

\* Any sessions and failures: a list that is the table stops being it only when
\* the database fails, when another session writes or when a form of one of its
\* tabs is refused, and never by a form that is accepted, even one whose row
\* another tab has just deleted (the returns of TurmaMonitoriaBean.persist).
EnvelheceNaRecusa ==
    \A s \in Sessoes :
        EmDia(s) /\ ~EmDia(s)' =>
            \/ falhas' # falhas
            \/ bean'[s] = bean[s] /\ tabela' # tabela
            \/ \E t \in Abas, f \in Registros : SessaoDe[t] = s /\ Recusa(t, f)
SoRecusaEnvelhece == [][EnvelheceNaRecusa]_telaVars

=============================================================================
