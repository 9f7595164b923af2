-------------------------- MODULE MonitoriaProofs ---------------------------
(***************************************************************************)
(* Theorems about the monitoring-class page: the promises of Tela, for any *)
(* sessions and failures.                                                  *)
(***************************************************************************)
EXTENDS Monitoria, TelaProofs

\* What a save of the page is, in terms of the screen.
LEMMA PersisteBean ==
    ASSUME TelaTypeOK, NEW t \in Abas, NEW f \in Registros
    PROVE  /\ SessaoDe[t] \in Sessoes
           /\ Submetido(SessaoDe[t], f) \in Beans
           /\ Submetido(SessaoDe[t], f).id = Bean(SessaoDe[t]).id
BY TelaAssumption, SubmetidoTipo

LEMMA PersisteTipo ==
    ASSUME TelaTypeOK, NEW t \in Abas, NEW f \in Registros, Persiste(t, f)
    PROVE  TelaTypeOK'
<1>1. CASE Recusa(t, f)
  BY <1>1, PersisteBean DEF TelaTypeOK, Recusa
<1>2. CASE Salva(t, f)
  BY <1>2, PersisteBean, GravaTipo, NaoGravaTipo DEF Salva
<1>3. QED
  BY <1>1, <1>2 DEF Persiste

\* Every request of a tab but a save is a request of the screen.
LEMMA NextDaTela ==
    ASSUME [Next]_telaVars
    PROVE  \/ \E t \in Abas : Navega(t) \/ AbrePagina(t)
           \/ \E t \in Abas, f \in Registros : Persiste(t, f)
           \/ \E s \in Sessoes : Expira(s)
           \/ UNCHANGED telaVars
BY DEF Next, Navega, Cria, Altera, Exclui

\* Every variable keeps its type, whatever the requests and the failures.
THEOREM Tipos == Spec => []TelaTypeOK
<1>1. Init => TelaTypeOK
  BY TelaAssumption DEF Init, TelaInit, TelaTypeOK, Ids
<1>2. ASSUME TelaTypeOK, [Next]_telaVars
      PROVE  TelaTypeOK'
  <2>1. CASE UNCHANGED telaVars
    BY <1>2, <2>1 DEF telaVars, TelaTypeOK
  <2>2. QED
    BY <1>2, <2>1, NextDaTela, NavegaTipo, AbreTipo, ExpiraTipo, PersisteTipo
<1>3. QED
  BY <1>1, <1>2, PTL DEF Spec

\* The table is a Cadastro: one row written per request, ids given out once,
\* nothing deleted ever comes back (persist, delete of TurmaMonitoriaBean).
THEOREM TabelaECadastro == Spec => ImplementaCadastro
<1>1. Init => Cad!CadastroInit
  BY InicioCadastro DEF Init
<1>2. ASSUME TelaTypeOK, [Next]_telaVars
      PROVE  [Cad!CadastroNext]_(Cad!cadastroVars)
  <2>1. ASSUME NEW t \in Abas, NEW f \in Registros, Persiste(t, f)
        PROVE  Cad!CadastroNext \/ UNCHANGED <<tabela, proximo>>
    <3>1. CASE Recusa(t, f)
      BY <3>1 DEF Recusa
    <3>2. CASE Salva(t, f)
      BY <1>2, <3>2, PersisteBean, GravaCadastro, NaoGravaCadastro DEF Salva
    <3>3. QED
      BY <2>1, <3>1, <3>2 DEF Persiste
  <2>2. ASSUME NEW t \in Abas, AbrePagina(t)
        PROVE  UNCHANGED <<tabela, proximo>>
    BY <2>2 DEF AbrePagina
  <2>3. (\E s \in Sessoes : Expira(s)) \/ UNCHANGED telaVars
          => UNCHANGED <<tabela, proximo>>
    BY DEF Expira, telaVars
  <2>4. QED
    BY <1>2, <2>1, <2>2, <2>3, NextDaTela, NavegaCadastro DEF Cad!cadastroVars
<1>3. QED
  BY <1>1, <1>2, Tipos, PTL DEF Spec, ImplementaCadastro, Cad!CadastroSpec

\* When no two tabs share a session, a row is rewritten only from the dialog
\* that was opened on it (update, create and persist of TurmaMonitoriaBean).
THEOREM GravaOAberto == UmaAbaPorSessao => (Spec => SalvaOQueAbriu)
<1> SUFFICES ASSUME UmaAbaPorSessao
             PROVE  Spec => SalvaOQueAbriu
  OBVIOUS
<1>1. Init => DialogoInv
  BY InicioDialogo DEF Init
<1>2. ASSUME TelaTypeOK, DialogoInv, [Next]_telaVars
      PROVE  DialogoInv' /\ [GravouOQueAbriu]_telaVars
  <2>1. ASSUME NEW t \in Abas, NEW f \in Registros, Persiste(t, f)
        PROVE  DialogoInv' /\ GravouOQueAbriu
    <3>1. CASE Recusa(t, f)
      <4>1. /\ bean' = [bean EXCEPT ![SessaoDe[t]] = Submetido(SessaoDe[t], f)]
            /\ UNCHANGED falhas
            /\ UNCHANGED <<tabela, proximo, dialogo>>
        BY <3>1 DEF Recusa
      <4>2. QED
        BY <1>2, <4>1, PersisteBean, RecusaDialogo
    <3>2. CASE Salva(t, f)
      BY <1>2, <3>2, PersisteBean, GravaDialogo, NaoGravaDialogo DEF Salva, SemDialogo
    <3>3. QED
      BY <2>1, <3>1, <3>2 DEF Persiste
  <2>2. CASE UNCHANGED telaVars
    BY <1>2, <2>2 DEF telaVars, DialogoInv, DialogoDe, LivresSemLinha
  <2>3. QED
    BY <1>2, <2>1, <2>2, NextDaTela, NavegaDialogo, ExpiraDialogo
<1>3. QED
  BY <1>1, <1>2, Tipos, PTL DEF Spec, SalvaOQueAbriu, GravouOQueAbriu

-----------------------------------------------------------------------------
(* What makes a list old *)

\* A refused form leaves the object under edition where it was, and touches the
\* list of its own session alone.
LEMMA RecusaLista ==
    ASSUME TelaTypeOK, ElementosCertos, NEW t \in Abas, NEW f \in Registros, Recusa(t, f)
    PROVE  ElementosCertos' /\ EnvelheceNaRecusa
<1> PICK s \in Sessoes : s = SessaoDe[t]
  BY TelaAssumption
<1> PICK b : b = Submetido(s, f)
  OBVIOUS
<1>1. b \in Beans /\ ElementoCerto(b)
  BY SubmetidoCerto
<1>2. bean' = [bean EXCEPT ![s] = b] /\ UNCHANGED tabela
  BY DEF Recusa
<1>3. bean'[s] = b /\ \A u \in Sessoes \ {s} : bean'[u] = bean[u]
  BY <1>2 DEF TelaTypeOK
<1>4. ElementosCertos'
  BY <1>1, <1>3 DEF ElementosCertos, ElementoCerto
<1>5. \A u \in Sessoes \ {s} : EmDia(u) => EmDia(u)'
  BY <1>2, <1>3 DEF EmDia
<1> QED BY <1>4, <1>5 DEF EnvelheceNaRecusa

\* Only failures, other sessions and refused forms make a list old, for any
\* sessions and tabs (Monitoria.SoRecusaEnvelhece).
THEOREM SoRecusa == Spec => SoRecusaEnvelhece
<1>1. Init => ElementosCertos
  BY DEF Init, TelaInit, ElementosCertos
<1>2. ASSUME TelaTypeOK, ElementosCertos, [Next]_telaVars
      PROVE  ElementosCertos' /\ [EnvelheceNaRecusa]_telaVars
  <2>1. ListaPreservada => ElementosCertos' /\ EnvelheceNaRecusa
    BY DEF ListaPreservada, EnvelhecePorFora, EnvelheceNaRecusa
  <2>2. ASSUME NEW t \in Abas, NEW f \in Registros, Persiste(t, f)
        PROVE  ElementosCertos' /\ EnvelheceNaRecusa
    BY <1>2, <2>1, <2>2, RecusaLista, GravaLista, NaoGravaLista DEF Persiste, Salva
  <2>3. CASE UNCHANGED telaVars
    BY <1>2, <2>3 DEF telaVars, ElementosCertos
  <2> QED
    BY <1>2, <2>1, <2>2, <2>3, NextDaTela, NavegaLista, AbreLista, ExpiraLista
<1> QED BY <1>1, <1>2, Tipos, PTL DEF Spec, SoRecusaEnvelhece

-----------------------------------------------------------------------------
(* One session: what a refusal leaves in the list.                           *)

SessaoUnica == \A s, r \in Sessoes : s = r

\* The list of the bean b against the rows tab; the object under edition is
\* in the list only while its row exists, or a submitted form would show an
\* element that has none.
Confere(b, tab) ==
    /\ \A i \in Ids :
          \/ b.lista[i] = tab[i]
          \/ /\ b.lista[i] # Nulo /\ tab[i] # Nulo
             /\ Invertida(b.lista[i]) /\ ~Invertida(tab[i])
    /\ b.naLista => b.id # Nulo /\ tab[b.id] # Nulo

DivergeInv ==
    /\ \A i \in Ids : tabela[i] # Nulo => ~Invertida(tabela[i])
    /\ falhas = 0 => \A s \in Sessoes : bean[s] # Nulo => Confere(bean[s], tabela)

LEMMA BeanConfere ==
    ASSUME TelaTypeOK, DivergeInv, falhas = 0, NEW s \in Sessoes
    PROVE  Confere(Bean(s), tabela)
BY DEF DivergeInv, Confere, Bean, NovoBean

\* A step that leaves the table alone and gives the bean of the session of t
\* the value b.
LEMMA TrocaConfere ==
    ASSUME TelaTypeOK, DivergeInv, NEW t \in Abas, NEW b,
           bean' = [bean EXCEPT ![SessaoDe[t]] = b], tabela' = tabela,
           falhas' = 0 => falhas = 0 /\ Confere(b, tabela)
    PROVE  DivergeInv'
<1>1. SessaoDe[t] \in Sessoes
  BY TelaAssumption
<1>2. \A s \in Sessoes : bean'[s] = IF s = SessaoDe[t] THEN b ELSE bean[s]
  BY <1>1 DEF TelaTypeOK
<1>3. QED
  BY <1>2 DEF DivergeInv, Confere

\* The step writes the table and the list is read again, when it is the list
\* of the only session.
LEMMA ReleConfere ==
    ASSUME SessaoUnica, TelaTypeOK, DivergeInv, NEW t \in Abas, NEW b \in Beans,
           bean' = [bean EXCEPT ![SessaoDe[t]] = Refrescado(b, tabela')],
           tabela' \in [Ids -> Registros \cup {Nulo}],
           \A i \in Ids : tabela'[i] # Nulo => ~Invertida(tabela'[i])
    PROVE  DivergeInv'
<1>1. SessaoDe[t] \in Sessoes
  BY TelaAssumption
<1>2. Confere(Refrescado(b, tabela'), tabela')
  BY RefrescadoTipo DEF Confere
<1>3. \A s \in Sessoes : bean'[s] = Refrescado(b, tabela')
  BY <1>1 DEF TelaTypeOK, SessaoUnica
<1>4. QED
  BY <1>2, <1>3 DEF DivergeInv, Confere

\* A step that fails has only the table to answer for.
LEMMA FalhaConfere ==
    ASSUME TelaTypeOK, Falha,
           \A i \in Ids : tabela'[i] # Nulo => ~Invertida(tabela'[i])
    PROVE  DivergeInv'
<1>1. falhas' # 0
  BY TelaAssumption DEF TelaTypeOK, Falha
<1>2. QED
  BY <1>1 DEF DivergeInv

LEMMA NavegaConfere ==
    ASSUME SessaoUnica, TelaTypeOK, DivergeInv, NEW t \in Abas, Navega(t)
    PROVE  DivergeInv'
<1> DEFINE s == SessaoDe[t]
<1>1. s \in Sessoes /\ Bean(s) \in Beans
  BY TelaAssumption, BeanTipo
<1>2. falhas = 0 => Confere(Bean(s), tabela)
  BY <1>1, BeanConfere
<1>3. CASE SaiDaPagina(t)
  <2>1. \A r \in Sessoes : bean'[r] # Nulo => bean'[r] = bean[r]
    BY <1>3 DEF SaiDaPagina, TelaTypeOK
  <2>2. QED
    BY <1>3, <2>1 DEF SaiDaPagina, DivergeInv, Confere
<1>4. CASE FechaDialogo(t)
  BY <1>4 DEF FechaDialogo, DivergeInv, Confere
<1>5. CASE Adiciona(t)
  <2> DEFINE b == [Bean(s) EXCEPT !.id = Nulo, !.naLista = FALSE]
  <2>1. b.lista = Bean(s).lista /\ ~b.naLista
    BY <1>1 DEF Beans
  <2>2. falhas = 0 => Confere(b, tabela)
    BY <1>2, <2>1 DEF Confere
  <2>3. bean' = [bean EXCEPT ![s] = b] /\ tabela' = tabela /\ falhas' = falhas
    BY <1>5 DEF Adiciona
  <2>4. QED
    BY <2>2, <2>3, TrocaConfere
<1>6. ASSUME NEW i \in Ids, Edita(t, i)
      PROVE  DivergeInv'
  <2> DEFINE b == [Bean(s) EXCEPT !.id = i, !.naLista = TRUE]
  <2>1. b.lista = Bean(s).lista /\ b.id = i
    BY <1>1 DEF Beans
  <2>2. i # Nulo /\ Bean(s).lista[i] # Nulo
    BY <1>6, TelaAssumption DEF Edita
  <2>3. falhas = 0 => Confere(b, tabela)
    BY <1>2, <2>1, <2>2 DEF Confere
  <2>4. bean' = [bean EXCEPT ![s] = b] /\ tabela' = tabela /\ falhas' = falhas
    BY <1>6 DEF Edita
  <2>5. QED
    BY <2>3, <2>4, TrocaConfere
<1>7. ASSUME NEW i \in Ids, ExcluiExistente(t, i)
      PROVE  DivergeInv'
  <2>1. tabela' = [tabela EXCEPT ![i] = Nulo]
    BY <1>7 DEF ExcluiExistente
  <2>2. /\ tabela' \in [Ids -> Registros \cup {Nulo}]
        /\ \A j \in Ids : tabela'[j] # Nulo => ~Invertida(tabela'[j])
    BY <2>1 DEF TelaTypeOK, DivergeInv
  <2>3. CASE bean' = [bean EXCEPT ![s] = Refrescado(Bean(s), tabela')]
    BY <1>1, <2>2, <2>3, ReleConfere
  <2>4. CASE Falha
    BY <2>2, <2>4, FalhaConfere
  <2>5. QED
    BY <1>7, <2>3, <2>4 DEF ExcluiExistente
<1>8. ASSUME NEW i \in Ids, ExcluiSemEfeito(t, i)
      PROVE  DivergeInv'
  <2>1. bean' = [bean EXCEPT ![s] = Bean(s)] /\ tabela' = tabela
    BY <1>8 DEF ExcluiSemEfeito
  <2>2. CASE Falha
    BY <2>1, <2>2, FalhaConfere DEF DivergeInv
  <2>3. CASE UNCHANGED falhas
    BY <1>2, <2>1, <2>3, TrocaConfere
  <2>4. QED
    BY <1>8, <2>2, <2>3 DEF ExcluiSemEfeito
<1>9. QED
  BY <1>3, <1>4, <1>5, <1>6, <1>7, <1>8 DEF Navega

\* A form in the bean: refused values may show, or nothing of it does.
LEMMA SubmetidoConfere ==
    ASSUME TelaTypeOK, DivergeInv, falhas = 0, NEW t \in Abas, NEW f \in Registros,
           LET b == Bean(SessaoDe[t]) IN Invertida(f) \/ ~b.naLista
    PROVE  Confere(Submetido(SessaoDe[t], f), tabela)
<1> DEFINE b == Bean(SessaoDe[t])
           c == Submetido(SessaoDe[t], f)
<1>1. b \in Beans /\ Confere(b, tabela) /\ f # Nulo
  BY TelaAssumption, BeanTipo, BeanConfere
<1>2. CASE ~b.naLista
  BY <1>1, <1>2 DEF Submetido
<1>3. CASE b.naLista /\ Invertida(f)
  <2>1. c = [b EXCEPT !.lista[b.id] = f]
    BY <1>3 DEF Submetido
  <2>2. /\ b.id \in Ids /\ tabela[b.id] # Nulo
        /\ ~Invertida(tabela[b.id])
    BY <1>1, <1>3 DEF Confere, Beans, DivergeInv
  <2>3. /\ c.id = b.id
        /\ \A i \in Ids : c.lista[i] = IF i = b.id THEN f ELSE b.lista[i]
    BY <1>1, <2>1, <2>2 DEF Beans
  <2>4. QED
    BY <1>1, <1>3, <2>2, <2>3, TelaAssumption DEF Confere
<1>4. QED
  BY <1>2, <1>3

LEMMA PersisteConfere ==
    ASSUME SessaoUnica, TelaTypeOK, DivergeInv, NEW t \in Abas, NEW f \in Registros,
           Persiste(t, f)
    PROVE  DivergeInv'
<1> DEFINE s == SessaoDe[t]
           b == Submetido(s, f)
<1>1. s \in Sessoes /\ b \in Beans /\ b.id = Bean(s).id /\ b.naLista = Bean(s).naLista
  BY TelaAssumption, SubmetidoTipo
<1>2. CASE Recusa(t, f)
  <2>1. Invertida(f) /\ bean' = [bean EXCEPT ![s] = b] /\ tabela' = tabela /\ falhas' = falhas
    BY <1>2 DEF Recusa
  <2>2. QED
    BY <2>1, SubmetidoConfere, TrocaConfere
<1>3. CASE Salva(t, f)
  <2>1. ~Invertida(f)
    BY <1>3 DEF Salva
  <2>2. CASE Grava(t, b, f)
    <3>1. tabela' = [tabela EXCEPT ![Alvo(b)] = f] /\ TelaTypeOK' /\ Alvo(b) \in Ids
      BY <1>1, <2>2, GravaTipo DEF Grava
    <3>2. /\ tabela' \in [Ids -> Registros \cup {Nulo}]
          /\ \A j \in Ids : tabela'[j] # Nulo => ~Invertida(tabela'[j])
      BY <2>1, <3>1 DEF TelaTypeOK, DivergeInv
    <3>3. CASE Falha
      BY <3>2, <3>3, FalhaConfere
    <3>4. CASE bean' = [bean EXCEPT ![s] = Refrescado([b EXCEPT !.id = Alvo(b)], tabela')]
      <4>1. [b EXCEPT !.id = Alvo(b)] \in Beans
        BY <1>1, <3>1 DEF Beans
      <4>2. QED
        BY <3>2, <3>4, <4>1, ReleConfere
    <3>5. QED
      BY <2>2, <3>3, <3>4 DEF Grava
  <2>3. CASE NaoGrava(t, b)
    <3>1. tabela' = tabela
      BY <2>3 DEF NaoGrava
    <3>2. CASE Falha
      BY <3>1, <3>2, FalhaConfere DEF DivergeInv
    <3>3. CASE b.id # Nulo /\ tabela[b.id] = Nulo /\ bean' = [bean EXCEPT ![s] = b] /\ UNCHANGED falhas
      <4>1. falhas = 0 => ~Bean(s).naLista
        BY <1>1, <3>3, BeanConfere DEF Confere
      <4>2. QED
        BY <3>1, <3>3, <4>1, SubmetidoConfere, TrocaConfere
    <3>4. QED
      BY <2>3, <3>2, <3>3 DEF NaoGrava
  <2>4. QED
    BY <1>3, <2>2, <2>3 DEF Salva
<1>4. QED
  BY <1>2, <1>3, PersisteTipo DEF Persiste

\* With one session, any number of tabs and until the database fails: what
\* the list shows and the table has not was refused, and never gets there
\* (persist of TurmaMonitoriaBean, which returns without reading the list).
THEOREM SoRecusadas == SessaoUnica => (Spec => []DivergeSoRecusada)
<1> SUFFICES ASSUME SessaoUnica
             PROVE  Spec => []DivergeSoRecusada
  OBVIOUS
<1>1. Init => DivergeInv
  BY DEF Init, TelaInit, DivergeInv
<1>2. ASSUME TelaTypeOK, DivergeInv, [Next]_telaVars
      PROVE  DivergeInv'
  <2>1. ASSUME NEW t \in Abas, AbrePagina(t)
        PROVE  DivergeInv'
    <3>1. Confere(NovoBean, tabela)
      BY DEF NovoBean, Confere
    <3>2. bean' = [bean EXCEPT ![SessaoDe[t]] = NovoBean] /\ tabela' = tabela /\ falhas' = falhas
      BY <2>1 DEF AbrePagina
    <3>3. QED
      BY <1>2, <3>1, <3>2, TrocaConfere
  <2>2. ASSUME NEW s \in Sessoes, Expira(s)
        PROVE  DivergeInv'
    <3>1. \A r \in Sessoes : bean'[r] # Nulo => bean'[r] = bean[r]
      BY <1>2, <2>2 DEF Expira, TelaTypeOK
    <3>2. QED
      BY <1>2, <2>2, <3>1 DEF Expira, DivergeInv, Confere
  <2>3. CASE UNCHANGED telaVars
    BY <1>2, <2>3 DEF telaVars, DivergeInv, Confere
  <2>4. QED
    BY <1>2, <2>1, <2>2, <2>3, NextDaTela, NavegaConfere, PersisteConfere
<1>3. DivergeInv => DivergeSoRecusada
  BY DEF DivergeInv, DivergeSoRecusada, Confere
<1>4. QED
  BY <1>1, <1>2, <1>3, Tipos, PTL DEF Spec

=============================================================================
