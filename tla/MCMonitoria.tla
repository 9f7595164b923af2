---------------------------- MODULE MCMonitoria -----------------------------
(***************************************************************************)
(* Instances of Monitoria for TLC.                                         *)
(***************************************************************************)
EXTENDS Monitoria, TLC

CONSTANTS s1, s2, a1, a2

\* Every tab in the same session.
MCUmaSessao == [t \in Abas |-> s1]

\* Every form the fields allow.
MCFormularios == Turma
=============================================================================
