--------------------------- MODULE MCCoordenacao ----------------------------
(***************************************************************************)
(* Instances of Coordenacao for TLC.                                       *)
(***************************************************************************)
EXTENDS Coordenacao, TLC

CONSTANTS s1, s2, a1, a2

\* One tab in each session.
MCAbaPorSessao == (a1 :> s1) @@ (a2 :> s2)

\* Every tab in the same session.
MCUmaSessao == [t \in Abas |-> s1]

\* The empty text finds every professor, and "b" the second one.
MCCasa == [x \in Textos |-> IF x = "" THEN Professores ELSE {2}]

\* The two sessions, each with its tab, play the same part.
MCTroca == { f \in Permutations({s1, s2, a1, a2}) :
               \A t \in {a1, a2} : f[t] \in {a1, a2} /\ f[MCAbaPorSessao[t]] = MCAbaPorSessao[f[t]] }
=============================================================================
