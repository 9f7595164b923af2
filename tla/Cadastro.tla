------------------------------ MODULE Cadastro ------------------------------
(***************************************************************************)
(* What a table kept through saveOrUpdate() and delete() promises whoever  *)
(* reads it, whatever sessions, tabs and failures there are: ids are given *)
(* out once and in order, one request writes one row, and a row that was   *)
(* deleted, or whose insert was rolled back, never appears again.          *)
(***************************************************************************)
EXTENDS Integers

CONSTANTS Registros, MaxId, Nulo

VARIABLES registros, proxima

cadastroVars == <<registros, proxima>>

Chaves == 1..MaxId

CadastroInit ==
    /\ registros = [i \in Chaves |-> Nulo]
    /\ proxima = 1

Insere(r) ==
    /\ proxima \in Chaves
    /\ registros' = [registros EXCEPT ![proxima] = r]
    /\ proxima' = proxima + 1

\* A rolled back insert uses up an id.
Descarta ==
    /\ proxima \in Chaves
    /\ proxima' = proxima + 1
    /\ UNCHANGED registros

Altera(i, r) ==
    /\ registros[i] # Nulo
    /\ registros' = [registros EXCEPT ![i] = r]
    /\ UNCHANGED proxima

Remove(i) ==
    /\ registros[i] # Nulo
    /\ registros' = [registros EXCEPT ![i] = Nulo]
    /\ UNCHANGED proxima

CadastroNext ==
    \/ \E r \in Registros : Insere(r) \/ \E i \in Chaves : Altera(i, r)
    \/ \E i \in Chaves : Remove(i)
    \/ Descarta

CadastroSpec == CadastroInit /\ [][CadastroNext]_cadastroVars

\* No row appears under an id that was already given out: what one session
\* deleted is never brought back by another that still shows it.
ExcluidoNaoVolta ==
    [][\A i \in Chaves :
        i < proxima /\ registros[i] = Nulo => registros'[i] = Nulo]_cadastroVars

=============================================================================
