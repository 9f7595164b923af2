---------------------------- MODULE MCSeminario -----------------------------
(***************************************************************************)
(* Instances of Seminario for TLC.  The cfg files choose among the values  *)
(* below for the constants that are not plain sets.                        *)
(***************************************************************************)
EXTENDS Seminario, TLC

CONSTANTS s1, s2, a1, a2

\* One tab in each session.
MCAbaPorSessao == (a1 :> s1) @@ (a2 :> s2)

\* Every tab in the same session.
MCUmaSessao == [t \in Abas |-> s1]

\* Rooms typed "A" and "a" are the same room.
MCSala == [l \in Locais |-> IF l = "a" THEN "A" ELSE l]

\* Every form the fields allow.
MCFormularios == Seminarios

\* Forms for one day, whose times are in order: what only the times decide.
MCHorarios == {f \in Seminarios : f.ini < f.fim}

\* Forms of two days, some of whose times contain each other, and texts that
\* are too long.
MCFormulario(c, l, d, i, f) == [titulo |-> c, local |-> l, data |-> d, ini |-> i, fim |-> f]
MCVariados == { MCFormulario("t", "A", 1, 1, 2), MCFormulario("t", "A", 1, 0, 3),
                MCFormulario("t", "A", 2, 1, 2), MCFormulario("tt", "A", 2, 1, 2),
                MCFormulario("t", "AA", 1, 1, 2) }

\* The two sessions, each with its tab, play the same part.
MCTroca == { g \in Permutations({s1, s2, a1, a2}) :
               \A t \in {a1, a2} : g[t] \in {a1, a2} /\ g[MCAbaPorSessao[t]] = MCAbaPorSessao[g[t]] }
=============================================================================
