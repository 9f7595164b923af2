--------------------------- MODULE CadastroProofs ---------------------------
(***************************************************************************)
(* What follows from the promise of Cadastro alone.                        *)
(***************************************************************************)
EXTENDS Cadastro, TLAPS

\* A row deleted once, or an insert rolled back, leaves its id without a row
\* for ever: the step of saveOrUpdate() that updates needs the row to exist.
THEOREM CadastroNaoRessuscita == CadastroSpec => ExcluidoNaoVolta
<1> DEFINE Fica == \A i \in Chaves :
                      i < proxima /\ registros[i] = Nulo => registros'[i] = Nulo
<1>1. ASSUME NEW i \in Chaves, i < proxima, registros[i] = Nulo,
             [CadastroNext]_cadastroVars, registros \in [Chaves -> Registros \cup {Nulo}]
      PROVE  registros'[i] = Nulo
  <2>1. CASE \E r \in Registros : Insere(r)
    BY <1>1, <2>1 DEF Insere, Chaves
  <2>2. CASE \E r \in Registros, j \in Chaves : Altera(j, r)
    BY <1>1, <2>2 DEF Altera
  <2>3. CASE \E j \in Chaves : Remove(j)
    BY <1>1, <2>3 DEF Remove
  <2>4. CASE Descarta \/ UNCHANGED cadastroVars
    BY <1>1, <2>4 DEF Descarta, cadastroVars
  <2>5. QED
    BY <1>1, <2>1, <2>2, <2>3, <2>4 DEF CadastroNext
<1>2. CadastroInit => registros \in [Chaves -> Registros \cup {Nulo}]
  BY DEF CadastroInit
<1>3. ASSUME registros \in [Chaves -> Registros \cup {Nulo}],
             [CadastroNext]_cadastroVars
      PROVE  (registros \in [Chaves -> Registros \cup {Nulo}])'
  BY <1>3 DEF CadastroNext, cadastroVars, Insere, Altera, Remove, Descarta
<1>4. ASSUME registros \in [Chaves -> Registros \cup {Nulo}],
             [CadastroNext]_cadastroVars
      PROVE  [Fica]_cadastroVars
  BY <1>1, <1>4
<1>5. QED
  BY <1>2, <1>3, <1>4, PTL DEF CadastroSpec, ExcluidoNaoVolta

=============================================================================
