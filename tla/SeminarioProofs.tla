-------------------------- MODULE SeminarioProofs ---------------------------
(***************************************************************************)
(* Theorems about the seminar page.                                        *)
(*                                                                         *)
(* 1. Types, and the table as a Cadastro: any sessions, tabs, failures.    *)
(* 2. SalvaOQueAbriu: any sessions and failures, one tab per session.      *)
(* 3. What explains an overlap, a day that is over, or a list that is not  *)
(*    the table any more: any sessions, tabs and failures.                 *)
(* 4. One session and no failure: its list is the table, no two bookings   *)
(*    overlap partially, and every save is an atomic booking of Agenda.    *)
(***************************************************************************)
EXTENDS Seminario, TelaProofs

-----------------------------------------------------------------------------
(* 1. Types and the table *)

LEMMA RecusaTipo ==
    ASSUME TelaTypeOK, NEW t \in Abas, NEW f \in Registros, Recusa(t, f)
    PROVE  TelaTypeOK'
<1> DEFINE s == SessaoDe[t]
           b == Submetido(s, f)
<1>1. s \in Sessoes /\ b \in Beans
  BY TelaAssumption, SubmetidoTipo
<1>2. Refrescado(b, tabela) \in Beans
  BY <1>1, RefrescadoTipo DEF TelaTypeOK
<1>3. falhas' \in 0..MaxFalhas
  BY TelaAssumption DEF TelaTypeOK, Recusa, Falha
<1>4. QED
  BY <1>1, <1>2, <1>3 DEF TelaTypeOK, Recusa

LEMMA PersisteTipo ==
    ASSUME TelaTypeOK, NEW t \in Abas, NEW f \in Registros, Persiste(t, f)
    PROVE  TelaTypeOK'
<1> DEFINE b == Submetido(SessaoDe[t], f)
<1>1. b \in Beans
  BY TelaAssumption, SubmetidoTipo
<1>2. CASE Recusa(t, f)
  BY <1>2, RecusaTipo
<1>3. CASE Salva(t, f)
  BY <1>1, <1>3, GravaTipo, NaoGravaTipo DEF Salva
<1>4. QED
  BY <1>2, <1>3 DEF Persiste

LEMMA RecusaLista ==
    ASSUME TelaTypeOK, ElementosCertos, NEW t \in Abas, NEW f \in Registros, Recusa(t, f)
    PROVE  ListaPreservada
<1> PICK s \in Sessoes : s = SessaoDe[t]
  BY TelaAssumption
<1> PICK b : b = Submetido(s, f)
  OBVIOUS
<1>1. b \in Beans /\ ElementoCerto(b) /\ tabela \in [Ids -> Registros \cup {Nulo}]
  BY SubmetidoCerto DEF TelaTypeOK
<1>2. /\ Refrescado(b, tabela) \in Beans /\ Refrescado(b, tabela).lista = tabela
      /\ ElementoCerto(Refrescado(b, tabela))
  BY <1>1, RefrescadoTipo DEF ElementoCerto
<1>3. CASE bean' = [bean EXCEPT ![s] = Refrescado(b, tabela)] /\ UNCHANGED tabela
  BY <1>2, <1>3, UmBeanMuda
<1>4. CASE bean' = [bean EXCEPT ![s] = b] /\ UNCHANGED tabela /\ Falha
  BY <1>1, <1>4, FalhaMuda, UmBeanMuda
<1> QED BY <1>3, <1>4 DEF Recusa

\* A step leaves the object under edition in the list or out of it, and makes
\* no list old but by a failure or from another session.
LEMMA PassoLista ==
    ASSUME TelaTypeOK, ElementosCertos, [Next]_vars
    PROVE  ListaPreservada
<1>1. ASSUME NEW t \in Abas, Abre(t) PROVE ListaPreservada
  BY <1>1, AbreLista DEF Abre
<1>2. ASSUME NEW t \in Abas, Opera(t) PROVE ListaPreservada
  <2>1. CASE Navega(t)
    BY <2>1, NavegaLista
  <2>2. ASSUME NEW f \in Registros, Persiste(t, f) PROVE ListaPreservada
    BY <2>2, RecusaLista, GravaLista, NaoGravaLista DEF Persiste, Salva
  <2> QED BY <1>2, <2>1, <2>2 DEF Opera
<1>3. ASSUME NEW s \in Sessoes, Encerra(s) PROVE ListaPreservada
  BY <1>3, ExpiraLista DEF Encerra
<1>4. CASE ViraODia \/ UNCHANGED vars
  BY <1>4 DEF ViraODia, vars, ListaPreservada, ElementosCertos, EnvelhecePorFora, EmDia
<1> QED BY <1>1, <1>2, <1>3, <1>4 DEF Next

\* Every variable keeps its type, and the object under edition of a session is
\* an element of its list only while the list has it, whatever the requests of
\* its tabs, the other sessions and the failures (Seminario.TypeOK).
THEOREM Tipos == Spec => []TypeOK
<1>1. Init => TypeOK
  BY TelaAssumption
     DEF Init, TypeOK, TelaInit, TelaTypeOK, ElementosCertos, Ids
<1>2. TypeOK /\ [Next]_vars => TypeOK'
  <2> SUFFICES ASSUME TypeOK, [Next]_vars
               PROVE  TypeOK'
    OBVIOUS
  <2>0. ElementosCertos'
    BY PassoLista DEF TypeOK, ListaPreservada
  <2>1. ASSUME NEW t \in Abas, Abre(t)
        PROVE  TypeOK'
    BY <2>0, <2>1, AbreTipo, TelaAssumption DEF TypeOK, Abre
  <2>2. ASSUME NEW t \in Abas, Opera(t)
        PROVE  TypeOK'
    <3>1. TelaTypeOK'
      BY <2>2, NavegaTipo, PersisteTipo DEF TypeOK, Opera
    <3>2. today' \in [Sessoes -> Dias] /\ hoje' \in Dias
      BY <2>2, TelaAssumption DEF TypeOK, Opera, AnotaDia, Today
    <3>3. QED
      BY <2>0, <3>1, <3>2 DEF TypeOK
  <2>3. ASSUME NEW s \in Sessoes, Encerra(s)
        PROVE  TypeOK'
    BY <2>0, <2>3, ExpiraTipo DEF TypeOK, Encerra
  <2>4. CASE ViraODia
    BY <2>0, <2>4 DEF TypeOK, TelaTypeOK, ViraODia
  <2>5. CASE UNCHANGED vars
    BY <2>0, <2>5 DEF TypeOK, TelaTypeOK, vars
  <2>6. QED
    BY <2>1, <2>2, <2>3, <2>4, <2>5 DEF Next
<1>3. QED
  BY <1>1, <1>2, PTL DEF Spec

\* The table is a Cadastro: one row written per request, ids given out once,
\* nothing deleted ever comes back (persist, delete of SeminarioBean).
THEOREM TabelaECadastro == Spec => ImplementaCadastro
<1>1. Init => Cad!CadastroInit
  BY InicioCadastro DEF Init
<1>2. TypeOK /\ [Next]_vars => [Cad!CadastroNext]_(Cad!cadastroVars)
  <2> SUFFICES ASSUME TypeOK, [Next]_vars
               PROVE  Cad!CadastroNext \/ UNCHANGED <<tabela, proximo>>
    BY DEF Cad!cadastroVars
  <2>1. ASSUME NEW t \in Abas, Abre(t)
        PROVE  UNCHANGED <<tabela, proximo>>
    BY <2>1 DEF Abre, AbrePagina
  <2>2. ASSUME NEW t \in Abas, Opera(t)
        PROVE  Cad!CadastroNext \/ UNCHANGED <<tabela, proximo>>
    <3>1. CASE Navega(t)
      BY <3>1, NavegaCadastro
    <3>2. ASSUME NEW f \in Registros, Persiste(t, f)
          PROVE  Cad!CadastroNext \/ UNCHANGED <<tabela, proximo>>
      <4>1. Submetido(SessaoDe[t], f) \in Beans
        BY SubmetidoTipo, TelaAssumption DEF TypeOK
      <4>2. CASE Recusa(t, f)
        BY <4>2 DEF Recusa
      <4>3. CASE Salva(t, f)
        BY <4>1, <4>3, GravaCadastro, NaoGravaCadastro DEF Salva
      <4>4. QED
        BY <3>2, <4>2, <4>3 DEF Persiste
    <3>3. QED
      BY <2>2, <3>1, <3>2 DEF Opera
  <2>3. ASSUME NEW s \in Sessoes, Encerra(s)
        PROVE  UNCHANGED <<tabela, proximo>>
    BY <2>3 DEF Encerra, Expira
  <2>4. CASE ViraODia \/ UNCHANGED vars
    BY <2>4 DEF ViraODia, vars
  <2>5. QED
    BY <2>1, <2>2, <2>3, <2>4 DEF Next
<1>3. QED
  BY <1>1, <1>2, Tipos, PTL DEF Spec, ImplementaCadastro, Cad!CadastroSpec

-----------------------------------------------------------------------------
(* 2. A save writes what its dialog was opened on *)

LEMMA PersisteDialogo ==
    ASSUME TelaTypeOK, DialogoInv, UmaAbaPorSessao, NEW t \in Abas,
           NEW f \in Registros, Persiste(t, f)
    PROVE  DialogoInv' /\ GravouOQueAbriu
<1> DEFINE s == SessaoDe[t]
           b == Submetido(s, f)
<1>1. s \in Sessoes /\ b \in Beans /\ b.id = Bean(s).id
  BY TelaAssumption, SubmetidoTipo
<1>2. dialogo[t] # Fechado
  BY DEF Persiste, Recusa, Salva, SemDialogo
<1>3. CASE Recusa(t, f)
  <2>1. /\ Refrescado(b, tabela) \in Beans
        /\ Refrescado(b, tabela).id = b.id
    BY <1>1, RefrescadoTipo DEF TelaTypeOK
  <2>2. PICK c \in {b, Refrescado(b, tabela)} : bean' = [bean EXCEPT ![s] = c]
    BY <1>3 DEF Recusa
  <2>3. c \in Beans /\ c.id = Bean(s).id
    BY <1>1, <2>1, <2>2
  <2>4. UNCHANGED falhas \/ Falha
    BY <1>3 DEF Recusa
  <2>5. UNCHANGED <<tabela, proximo, dialogo>>
    BY <1>3 DEF Recusa
  <2>6. QED
    BY <2>2, <2>3, <2>4, <2>5, RecusaDialogo
<1>4. CASE Salva(t, f)
  BY <1>1, <1>2, <1>4, GravaDialogo, NaoGravaDialogo DEF Salva
<1>5. QED
  BY <1>3, <1>4 DEF Persiste

\* When no two tabs share a session, a row is rewritten only from the dialog
\* that was opened on it (update, create and persist of SeminarioBean).
THEOREM GravaOAberto == UmaAbaPorSessao => (Spec => SalvaOQueAbriu)
<1> SUFFICES ASSUME UmaAbaPorSessao
             PROVE  Spec => SalvaOQueAbriu
  OBVIOUS
<1>1. Init => DialogoInv
  BY InicioDialogo DEF Init
<1>2. ASSUME TypeOK, DialogoInv, [Next]_vars
      PROVE  DialogoInv' /\ (GravouOQueAbriu \/ UNCHANGED telaVars)
  <2>1. ASSUME NEW t \in Abas, Abre(t)
        PROVE  DialogoInv' /\ GravouOQueAbriu
    BY <1>2, <2>1, NavegaDialogo DEF TypeOK, Abre
  <2>2. ASSUME NEW t \in Abas, Opera(t)
        PROVE  DialogoInv' /\ GravouOQueAbriu
    BY <1>2, <2>2, NavegaDialogo, PersisteDialogo DEF TypeOK, Opera
  <2>3. ASSUME NEW s \in Sessoes, Encerra(s)
        PROVE  DialogoInv' /\ GravouOQueAbriu
    BY <1>2, <2>3, ExpiraDialogo DEF TypeOK, Encerra
  <2>4. CASE ViraODia \/ UNCHANGED vars
    <3>1. UNCHANGED telaVars
      BY <2>4 DEF ViraODia, vars, telaVars
    <3>2. QED
      BY <1>2, <3>1 DEF telaVars, DialogoInv, DialogoDe, LivresSemLinha
  <2>5. QED
    BY <1>2, <2>1, <2>2, <2>3, <2>4 DEF Next
<1>3. ASSUME TypeOK, DialogoInv, [Next]_vars
      PROVE  [GravouOQueAbriu]_telaVars
  BY <1>2, <1>3
<1>4. QED
  BY <1>1, <1>2, <1>3, Tipos, PTL DEF Spec, SalvaOQueAbriu, GravouOQueAbriu

-----------------------------------------------------------------------------
(* 3. Why two seminars of a room share time *)

\* The exact gap of hasScheduleConflict(): of two bookings that overlap it
\* misses those where the new one contains the old one, and only those.
THEOREM LacunaDoConflito ==
    ASSUME NEW s \in Seminarios, NEW e \in Seminarios,
           s.ini < s.fim, e.ini < e.fim
    PROVE  Conflito(s, e) <=> Sobrepoe(s, e) /\ ~Contem(e, s)
<1>1. s.ini \in Int /\ s.fim \in Int /\ e.ini \in Int /\ e.fim \in Int
  BY HorarioAssumption DEF Seminarios
<1>2. QED
  BY <1>1 DEF Conflito, Sobrepoe, Contem

HorasEmOrdem == \A i \in Ids : tabela[i] # Nulo => tabela[i].ini < tabela[i].fim

\* The actions of SobreposicaoExplicada and of DiaVencidoExplicado.
ExplicaSobreposicao ==
    \A i, j \in Ids :
        i # j /\ tabela'[i] \notin {Nulo, tabela[i]} /\ tabela[j] # Nulo
              /\ Sobrepoe(tabela[j], tabela'[i])
            => \E t \in Abas :
                  /\ Salva(t, tabela'[i])
                  /\ \/ Contem(tabela'[i], tabela[j])
                     \/ Bean(SessaoDe[t]).lista[j] # tabela[j]

ExplicaDiaVencido ==
    \A i \in Ids :
        tabela'[i] \notin {Nulo, tabela[i]} /\ tabela'[i].data < hoje
            => \E t \in Abas :
                  /\ Salva(t, tabela'[i])
                  /\ bean[SessaoDe[t]] # Nulo /\ today[SessaoDe[t]] <= tabela'[i].data

\* No row is written but one that a form was accepted for.
LEMMA SoAceitos ==
    ASSUME TypeOK, [Next]_vars
    PROVE  \/ \A i \in Ids : tabela'[i] \in {Nulo, tabela[i]}
           \/ \E t \in Abas : \E f \in Registros :
                 Salva(t, f) /\ Grava(t, Submetido(SessaoDe[t], f), f)
<1>1. UNCHANGED tabela => \A i \in Ids : tabela'[i] \in {Nulo, tabela[i]}
  OBVIOUS
<1>2. ASSUME NEW t \in Abas, NEW i \in Ids, ExcluiExistente(t, i)
      PROVE  \A j \in Ids : tabela'[j] \in {Nulo, tabela[j]}
  BY <1>2 DEF ExcluiExistente, TypeOK, TelaTypeOK
<1>3. ASSUME NEW t \in Abas, Navega(t), ~UNCHANGED tabela
      PROVE  \E i \in Ids : ExcluiExistente(t, i)
  BY <1>3 DEF Navega, SaiDaPagina, Adiciona, FechaDialogo, Edita, ExcluiSemEfeito
<1>4. ASSUME NEW t \in Abas, NEW f \in Registros, Persiste(t, f), ~UNCHANGED tabela
      PROVE  Salva(t, f) /\ Grava(t, Submetido(SessaoDe[t], f), f)
  BY <1>4 DEF Persiste, Recusa, Salva, NaoGrava
<1>5. ~UNCHANGED tabela => \E t \in Abas : Opera(t)
  BY DEF Next, Abre, AbrePagina, Encerra, Expira, ViraODia, vars
<1> QED BY <1>1, <1>2, <1>3, <1>4, <1>5 DEF Opera

\* A form changes in the list nothing but the element under edition.
LEMMA ListaForaDoFormulario ==
    ASSUME TypeOK, NEW s \in Sessoes, NEW f \in Registros, NEW j \in Ids,
           j # Submetido(s, f).id
    PROVE  Submetido(s, f).lista[j] = Bean(s).lista[j]
<1>1. Bean(s) \in Beans /\ Submetido(s, f).id = Bean(s).id
  BY BeanTipo, SubmetidoTipo DEF TypeOK
<1>2. CASE Bean(s).naLista
  <2>1. Submetido(s, f).lista = [Bean(s).lista EXCEPT ![Bean(s).id] = f]
    BY <1>1, <1>2 DEF Submetido, Beans
  <2> QED BY <1>1, <2>1 DEF Beans
<1> QED BY <1>2 DEF Submetido

\* A save writes one row, with times in order.  If that row overlaps another
\* that it does not contain, the list had not that other one as it is; and if
\* its day is over, the bean was built before.
LEMMA SalvaExplicado ==
    ASSUME TypeOK, HorasEmOrdem, NEW t \in Abas, NEW f \in Registros,
           Salva(t, f), Grava(t, Submetido(SessaoDe[t], f), f)
    PROVE  HorasEmOrdem' /\ ExplicaSobreposicao /\ ExplicaDiaVencido
<1> PICK s, b, k : s = SessaoDe[t] /\ b = Submetido(s, f) /\ k = Alvo(b)
  OBVIOUS
<1>1. /\ s \in Sessoes /\ b \in Beans /\ b.id = Bean(s).id /\ k \in Ids
      /\ tabela \in [Ids -> Registros \cup {Nulo}]
  BY TelaAssumption, SubmetidoTipo, GravaTipo DEF TypeOK, TelaTypeOK
<1>2. tabela' = [tabela EXCEPT ![k] = f]
  BY DEF Grava
<1>3. f \in Seminarios /\ f.ini \in Int /\ f.fim \in Int /\ f.data \in Int
  BY SeminarioAssumption, HorarioAssumption DEF Seminarios
<1>4. f.ini < f.fim
  BY <1>3 DEF Salva, Recusado
<1>5. \A j \in Ids \ {k} : tabela'[j] = tabela[j]
  BY <1>1, <1>2
<1>6. tabela'[k] = f
  BY <1>1, <1>2
<1>7. Salva(t, tabela'[k])
  BY <1>6
<1>8. HorasEmOrdem'
  BY <1>4, <1>5, <1>6 DEF HorasEmOrdem
<1>9. ASSUME NEW j \in Ids \ {k}, tabela[j] # Nulo, Sobrepoe(tabela[j], f),
             ~Contem(f, tabela[j])
      PROVE  Bean(s).lista[j] # tabela[j]
  <2>1. tabela[j] \in Seminarios /\ tabela[j].ini < tabela[j].fim
    BY <1>1, <1>9, SeminarioAssumption DEF HorasEmOrdem
  <2>2. Conflito(tabela[j], f)
    BY <1>3, <1>4, <1>9, <2>1, LacunaDoConflito
  <2>3. j # b.id
    BY TelaAssumption DEF Alvo
  <2>4. b.lista[j] # tabela[j]
    BY <1>9, <2>2, <2>3 DEF Salva, Recusado
  <2> QED BY <1>1, <2>3, <2>4, ListaForaDoFormulario
<1>10. ExplicaSobreposicao
  BY <1>5, <1>6, <1>7, <1>9 DEF ExplicaSobreposicao
<1>11. ASSUME f.data < hoje
       PROVE  bean[s] # Nulo /\ today[s] <= f.data
  <2>1. ~(f.data < Today(s))
    BY DEF Salva, Recusado
  <2>2. bean[s] # Nulo /\ Today(s) = today[s]
    BY <1>11, <2>1 DEF Today
  <2>3. today[s] \in Int
    BY <1>1, HorarioAssumption DEF TypeOK
  <2> QED BY <1>3, <2>1, <2>2, <2>3
<1>12. ExplicaDiaVencido
  BY <1>5, <1>6, <1>7, <1>11 DEF ExplicaDiaVencido
<1> QED BY <1>8, <1>10, <1>12

LEMMA PassoExplicado ==
    ASSUME TypeOK, HorasEmOrdem, [Next]_vars
    PROVE  HorasEmOrdem' /\ ExplicaSobreposicao /\ ExplicaDiaVencido
<1>1. CASE \A i \in Ids : tabela'[i] \in {Nulo, tabela[i]}
  BY <1>1 DEF HorasEmOrdem, ExplicaSobreposicao, ExplicaDiaVencido
<1> QED BY <1>1, SoAceitos, SalvaExplicado

LEMMA HorasSempreEmOrdem == Spec => []HorasEmOrdem
<1>1. Init => HorasEmOrdem
  BY DEF Init, TelaInit, HorasEmOrdem
<1> QED BY <1>1, PassoExplicado, Tipos, PTL DEF Spec

\* However many sessions, tabs and failures there are, two seminars of a room
\* come to share time in two ways only: the new one contains the other, or the
\* session that saved it had a list behind the table (hasScheduleConflict()
\* and the list of SeminarioBean).
THEOREM SobreposicoesExplicadas == Spec => SobreposicaoExplicada
<1>1. TypeOK /\ HorasEmOrdem /\ [Next]_vars => [ExplicaSobreposicao]_vars
  BY PassoExplicado
<1> QED BY <1>1, Tipos, HorasSempreEmOrdem, PTL
        DEF Spec, SobreposicaoExplicada, ExplicaSobreposicao

\* A seminar is saved on a day that is over only through a bean that was built
\* while it was not (today of SeminarioBean, set when the bean is built).
THEOREM DiasVencidosExplicados == Spec => DiaVencidoExplicado
<1>1. TypeOK /\ HorasEmOrdem /\ [Next]_vars => [ExplicaDiaVencido]_vars
  BY PassoExplicado
<1> QED BY <1>1, Tipos, HorasSempreEmOrdem, PTL
        DEF Spec, DiaVencidoExplicado, ExplicaDiaVencido

\* A list that is the table gets old by failures and by other sessions alone
\* (Seminario.SoPorForaEnvelhece).
THEOREM SoPorFora == Spec => SoPorForaEnvelhece
<1>1. TypeOK /\ [Next]_vars => [EnvelhecePorFora]_vars
  BY PassoLista DEF TypeOK, ListaPreservada
<1> QED BY <1>1, Tipos, PTL DEF Spec, SoPorForaEnvelhece

-----------------------------------------------------------------------------
(* 4. One session and a database that answers *)

SessaoUnica == (\A s, u \in Sessoes : s = u) /\ MaxFalhas = 0

\* The element of the list under edition is a row of the table.
EditadoExiste ==
    \A s \in Sessoes :
        bean[s] # Nulo /\ bean[s].naLista
            => bean[s].id \in Ids /\ tabela[bean[s].id] # Nulo

\* SemSobreposicaoParcial is not inductive by itself: a save is checked
\* against the list, so the list must be the table.
IInv ==
    /\ TypeOK
    /\ ListaEmDia
    /\ EditadoExiste
    /\ HorasEmOrdem
    /\ SemSobreposicaoParcial

LEMMA SemFalha == ASSUME SessaoUnica, TypeOK PROVE ~Falha
BY DEF SessaoUnica, TypeOK, TelaTypeOK, Falha

\* The bean of a request sees the table, whether it was there or is built.
LEMMA BeanEmDia ==
    ASSUME IInv, NEW s \in Sessoes
    PROVE  /\ Bean(s) \in Beans
           /\ Bean(s).lista = tabela
           /\ Bean(s).naLista => Bean(s).id \in Ids /\ tabela[Bean(s).id] # Nulo
<1>1. Bean(s) \in Beans
  BY BeanTipo DEF IInv, TypeOK
<1>2. QED
  BY <1>1 DEF IInv, ListaEmDia, EmDia, EditadoExiste, Bean, NovoBean

LEMMA SubmetidoEmDia ==
    ASSUME IInv, NEW s \in Sessoes, NEW f \in Registros, NEW j \in Ids,
           j # Submetido(s, f).id
    PROVE  Submetido(s, f).lista[j] = tabela[j]
BY BeanEmDia, ListaForaDoFormulario DEF IInv

\* An accepted form is a booking of the agenda.
LEMMA AceitoMarca ==
    ASSUME IInv, NEW t \in Abas, NEW f \in Registros,
           ~Recusado(SessaoDe[t], Submetido(SessaoDe[t], f), f),
           Grava(t, Submetido(SessaoDe[t], f), f)
    PROVE  LET i == Alvo(Submetido(SessaoDe[t], f)) IN
           /\ i \in Ids
           /\ Ag!Marca(i, f)
<1> DEFINE s == SessaoDe[t]
           b == Submetido(s, f)
           i == Alvo(b)
<1>1. s \in Sessoes /\ b \in Beans
  BY TelaAssumption, SubmetidoTipo DEF IInv, TypeOK
<1>2. i \in Ids
  BY <1>1, GravaTipo DEF IInv, TypeOK
<1>3. f.ini < f.fim
  <2>1. f.ini \in Int /\ f.fim \in Int
    BY SeminarioAssumption, HorarioAssumption DEF Seminarios
  <2>2. ~(f.ini >= f.fim)
    BY DEF Recusado
  <2>3. QED
    BY <2>1, <2>2
<1>4. ASSUME NEW j \in Ids \ {i}, tabela[j] # Nulo
      PROVE  ~Conflito(tabela[j], f)
  <2>1. j # b.id
    BY <1>4, TelaAssumption DEF Alvo
  <2>2. b.lista[j] = tabela[j]
    BY <1>1, <2>1, SubmetidoEmDia
  <2>3. QED
    BY <1>4, <2>1, <2>2 DEF Recusado
<1>5. Ag!Livre(i, f)
  BY <1>4 DEF Ag!Livre, Ag!Conflito, Conflito, Ag!MesmoLugarEDia, MesmoLugarEDia
<1>6. tabela' = [tabela EXCEPT ![i] = f]
  BY DEF Grava
<1>7. QED
  BY <1>2, <1>3, <1>5, <1>6 DEF Ag!Marca

\* A booking of the agenda keeps overlaps to strict containments.
LEMMA MarcaSemSobreposicao ==
    ASSUME IInv, NEW i \in Ids, NEW f \in Registros, Ag!Marca(i, f)
    PROVE  HorasEmOrdem' /\ SemSobreposicaoParcial'
<1>1. tabela \in [Ids -> Registros \cup {Nulo}] /\ f \in Seminarios
  BY SeminarioAssumption DEF IInv, TypeOK, TelaTypeOK
<1>2. HorasEmOrdem'
  BY <1>1 DEF Ag!Marca, IInv, HorasEmOrdem
<1>3. ASSUME NEW j \in Ids \ {i}, tabela[j] # Nulo,
             Sobrepoe(tabela[j], f) \/ Sobrepoe(f, tabela[j])
      PROVE  Contem(f, tabela[j])
  <2>1. tabela[j] \in Seminarios /\ tabela[j].ini < tabela[j].fim
    BY <1>1, <1>3, SeminarioAssumption DEF IInv, HorasEmOrdem
  <2>2. f.ini < f.fim
    BY DEF Ag!Marca
  <2>3. Sobrepoe(tabela[j], f)
    BY <1>3 DEF Sobrepoe, MesmoLugarEDia
  <2>4. ~Conflito(tabela[j], f)
    BY <1>3 DEF Ag!Marca, Ag!Livre, Ag!Conflito, Conflito,
                Ag!MesmoLugarEDia, MesmoLugarEDia
  <2>5. QED
    BY <1>1, <2>1, <2>2, <2>3, <2>4, LacunaDoConflito
<1>4. tabela' = [tabela EXCEPT ![i] = f]
  BY DEF Ag!Marca
<1>5. ASSUME NEW j \in Ids, NEW k \in Ids, j # k,
             tabela'[j] # Nulo, tabela'[k] # Nulo,
             Sobrepoe(tabela'[j], tabela'[k])
      PROVE  Contem(tabela'[j], tabela'[k]) \/ Contem(tabela'[k], tabela'[j])
  <2>1. CASE j # i /\ k # i
    BY <1>1, <1>4, <1>5, <2>1 DEF IInv, SemSobreposicaoParcial
  <2>2. CASE j = i
    BY <1>1, <1>3, <1>4, <1>5, <2>2
  <2>3. CASE k = i
    BY <1>1, <1>3, <1>4, <1>5, <2>3
  <2>4. QED
    BY <2>1, <2>2, <2>3
<1>6. QED
  BY <1>2, <1>5 DEF SemSobreposicaoParcial, Sobrepoe, Contem, MesmoLugarEDia

LEMMA InicioIInv == Init => IInv
<1> SUFFICES ASSUME Init PROVE IInv
  OBVIOUS
<1>1. TypeOK
  BY TelaAssumption DEF Init, TypeOK, TelaInit, TelaTypeOK, ElementosCertos, Ids
<1>2. QED
  BY <1>1 DEF Init, TelaInit, IInv, ListaEmDia, EmDia, EditadoExiste, HorasEmOrdem,
              SemSobreposicaoParcial

\* Requests other than a save: the table only loses rows, and a bean is
\* either read again or still shows the table.
LEMMA NavegaIInv ==
    ASSUME SessaoUnica, IInv, TypeOK', NEW t \in Abas, Navega(t) \/ AbrePagina(t)
    PROVE  /\ IInv'
           /\ (\E i \in Ids : Ag!Desmarca(i)) \/ UNCHANGED tabela
<1> DEFINE s == SessaoDe[t]
<1>1. /\ s \in Sessoes /\ \A u \in Sessoes : u = s
      /\ Bean(s) \in Beans /\ Bean(s).lista = tabela
      /\ Bean(s).naLista => Bean(s).id \in Ids /\ tabela[Bean(s).id] # Nulo
      /\ bean \in [Sessoes -> Beans \cup {Nulo}]
      /\ tabela \in [Ids -> Registros \cup {Nulo}]
  BY TelaAssumption, BeanEmDia DEF SessaoUnica, IInv, TypeOK, TelaTypeOK
<1>2. ~Falha
  BY SemFalha DEF IInv
<1>3. ASSUME NEW c \in Beans, bean' = [bean EXCEPT ![s] = c],
             c.lista = tabela', c.naLista => c.id \in Ids /\ tabela'[c.id] # Nulo
      PROVE  ListaEmDia' /\ EditadoExiste'
  BY <1>1, <1>3 DEF ListaEmDia, EmDia, EditadoExiste
<1>4. UNCHANGED tabela => HorasEmOrdem' /\ SemSobreposicaoParcial'
  BY DEF IInv, HorasEmOrdem, SemSobreposicaoParcial
<1>5. CASE AbrePagina(t)
  <2>1. NovoBean \in Beans /\ NovoBean.lista = tabela /\ NovoBean.naLista = FALSE
    BY <1>1 DEF NovoBean, Beans
  <2>2. QED
    BY <1>3, <1>4, <1>5, <2>1 DEF AbrePagina, IInv
<1>6. CASE SaiDaPagina(t)
  <2>1. ListaEmDia' /\ EditadoExiste'
    BY <1>1, <1>6 DEF SaiDaPagina, ListaEmDia, EmDia, EditadoExiste
  <2>2. QED
    BY <1>4, <1>6, <2>1 DEF SaiDaPagina, IInv
<1>7. CASE FechaDialogo(t)
  BY <1>4, <1>7 DEF FechaDialogo, IInv, ListaEmDia, EmDia, EditadoExiste
<1>8. CASE Adiciona(t)
  <2> DEFINE c == [Bean(s) EXCEPT !.id = Nulo, !.naLista = FALSE]
  <2>1. c \in Beans /\ c.lista = tabela /\ c.naLista = FALSE
    BY <1>1 DEF Beans
  <2>2. QED
    BY <1>3, <1>4, <1>8, <2>1 DEF Adiciona, IInv
<1>9. ASSUME NEW i \in Ids, Edita(t, i)
      PROVE  IInv' /\ UNCHANGED tabela
  <2> DEFINE c == [Bean(s) EXCEPT !.id = i, !.naLista = TRUE]
  <2>1. c \in Beans /\ c.lista = tabela /\ c.id = i
    BY <1>1 DEF Beans
  <2>2. tabela[i] # Nulo
    BY <1>1, <1>9 DEF Edita
  <2>3. QED
    BY <1>3, <1>4, <1>9, <2>1, <2>2 DEF Edita, IInv
<1>10. ASSUME NEW i \in Ids, ExcluiExistente(t, i)
       PROVE  IInv' /\ Ag!Desmarca(i)
  <2>1. tabela' = [tabela EXCEPT ![i] = Nulo] /\ tabela[i] # Nulo
    BY <1>10 DEF ExcluiExistente
  <2>2. tabela' \in [Ids -> Registros \cup {Nulo}]
    BY <1>1, <2>1
  <2>3. ListaEmDia' /\ EditadoExiste'
    <3> DEFINE c == Refrescado(Bean(s), tabela')
    <3>1. c \in Beans /\ c.lista = tabela' /\ c.naLista = FALSE
      BY <1>1, <2>2, RefrescadoTipo
    <3>2. bean' = [bean EXCEPT ![s] = c]
      BY <1>2, <1>10 DEF ExcluiExistente
    <3>3. QED
      BY <1>3, <3>1, <3>2
  <2>4. \A j \in Ids : tabela'[j] = tabela[j] \/ tabela'[j] = Nulo
    BY <1>1, <2>1
  <2>5. HorasEmOrdem' /\ SemSobreposicaoParcial'
    BY <2>4 DEF IInv, HorasEmOrdem, SemSobreposicaoParcial, Sobrepoe, Contem, MesmoLugarEDia
  <2>6. QED
    BY <2>1, <2>3, <2>5 DEF IInv, Ag!Desmarca
<1>11. ASSUME NEW i \in Ids, ExcluiSemEfeito(t, i)
       PROVE  FALSE
  BY <1>1, <1>2, <1>11 DEF ExcluiSemEfeito
<1>12. QED
  BY <1>4, <1>5, <1>6, <1>7, <1>8, <1>9, <1>10, <1>11
     DEF Navega, AbrePagina, SaiDaPagina, FechaDialogo, Adiciona

\* A save: refused and read again, written, or without effect on the table.
LEMMA PersisteIInv ==
    ASSUME SessaoUnica, IInv, TypeOK', NEW t \in Abas, NEW f \in Registros,
           Persiste(t, f)
    PROVE  /\ IInv'
           /\ (\E i \in Ids : Ag!Marca(i, f)) \/ UNCHANGED tabela
<1> DEFINE s == SessaoDe[t]
           b == Submetido(s, f)
<1>1. /\ s \in Sessoes /\ \A u \in Sessoes : u = s
      /\ b \in Beans /\ b.id = Bean(s).id /\ b.naLista = Bean(s).naLista
      /\ Bean(s) \in Beans /\ Bean(s).lista = tabela
      /\ Bean(s).naLista => Bean(s).id \in Ids /\ tabela[Bean(s).id] # Nulo
      /\ bean \in [Sessoes -> Beans \cup {Nulo}]
      /\ tabela \in [Ids -> Registros \cup {Nulo}]
  BY TelaAssumption, BeanEmDia, SubmetidoTipo DEF SessaoUnica, IInv, TypeOK, TelaTypeOK
<1>2. ~Falha
  BY SemFalha DEF IInv
<1>3. ASSUME NEW c \in Beans, bean' = [bean EXCEPT ![s] = c],
             c.lista = tabela', c.naLista = FALSE
      PROVE  ListaEmDia' /\ EditadoExiste'
  BY <1>1, <1>3 DEF ListaEmDia, EmDia, EditadoExiste
<1>4. CASE Recusa(t, f)
  <2>1. UNCHANGED tabela /\ bean' = [bean EXCEPT ![s] = Refrescado(b, tabela)]
    BY <1>2, <1>4 DEF Recusa
  <2>2. ListaEmDia' /\ EditadoExiste'
    BY <1>1, <1>3, <2>1, RefrescadoTipo
  <2>3. QED
    BY <2>1, <2>2 DEF IInv, HorasEmOrdem, SemSobreposicaoParcial
<1>5. CASE Salva(t, f) /\ Grava(t, b, f)
  <2> DEFINE i == Alvo(b)
             d == [b EXCEPT !.id = i]
             c == Refrescado(d, tabela')
  <2>1. i \in Ids /\ Ag!Marca(i, f)
    BY <1>5, AceitoMarca DEF Salva
  <2>2. HorasEmOrdem' /\ SemSobreposicaoParcial'
    BY <2>1, MarcaSemSobreposicao
  <2>3. tabela' \in [Ids -> Registros \cup {Nulo}] /\ d \in Beans
    BY <1>1, <2>1 DEF TypeOK, TelaTypeOK, Beans
  <2>4. c \in Beans /\ c.lista = tabela' /\ c.naLista = FALSE
    BY <2>3, RefrescadoTipo
  <2>5. bean' = [bean EXCEPT ![s] = c]
    BY <1>2, <1>5 DEF Grava
  <2>6. ListaEmDia' /\ EditadoExiste'
    BY <1>3, <2>4, <2>5
  <2>7. QED
    BY <2>1, <2>2, <2>6 DEF IInv
<1>6. CASE Salva(t, f) /\ NaoGrava(t, b)
  <2>1. /\ b.id # Nulo /\ tabela[b.id] = Nulo
        /\ bean' = [bean EXCEPT ![s] = b] /\ UNCHANGED tabela
    BY <1>2, <1>6 DEF NaoGrava
  <2>2. b.naLista = FALSE
    BY <1>1, <2>1 DEF Beans
  <2>3. b.lista = tabela
    BY <1>1, <2>2 DEF Submetido
  <2>4. ListaEmDia' /\ EditadoExiste'
    BY <1>1, <1>3, <2>1, <2>2, <2>3
  <2>5. QED
    BY <2>1, <2>4 DEF IInv, HorasEmOrdem, SemSobreposicaoParcial
<1>7. QED
  BY <1>4, <1>5, <1>6 DEF Persiste, Salva

\* Every step keeps the invariant and is a step of the agenda or none.
LEMMA PassoIInv ==
    ASSUME SessaoUnica, IInv, TypeOK', [Next]_vars
    PROVE  IInv' /\ [Ag!AgendaNext]_tabela
<1>1. ASSUME NEW t \in Abas, Abre(t)
      PROVE  IInv' /\ [Ag!AgendaNext]_tabela
  BY <1>1, NavegaIInv DEF Abre, Ag!AgendaNext
<1>2. ASSUME NEW t \in Abas, Opera(t)
      PROVE  IInv' /\ [Ag!AgendaNext]_tabela
  <2>1. CASE Navega(t)
    BY <2>1, NavegaIInv DEF Ag!AgendaNext
  <2>2. ASSUME NEW f \in Registros, Persiste(t, f)
        PROVE  IInv' /\ [Ag!AgendaNext]_tabela
    <3>1. f \in Ag!Seminarios
      BY SeminarioAssumption DEF Seminarios, Ag!Seminarios
    <3>2. QED
      BY <2>2, <3>1, PersisteIInv DEF Ag!AgendaNext
  <2>3. QED
    BY <1>2, <2>1, <2>2 DEF Opera
<1>3. ASSUME NEW s \in Sessoes, Encerra(s)
      PROVE  IInv' /\ UNCHANGED tabela
  BY <1>3 DEF Encerra, Expira, IInv, TypeOK, TelaTypeOK, ListaEmDia, EmDia, EditadoExiste,
              HorasEmOrdem, SemSobreposicaoParcial
<1>4. CASE ViraODia \/ UNCHANGED vars
  BY <1>4 DEF ViraODia, vars, IInv, ListaEmDia, EmDia, EditadoExiste,
              HorasEmOrdem, SemSobreposicaoParcial
<1>5. QED
  BY <1>1, <1>2, <1>3, <1>4 DEF Next

\* With one session the list on the screen is always the table.
THEOREM ListaAtual == SessaoUnica => (Spec => []ListaEmDia)
<1> SUFFICES ASSUME SessaoUnica PROVE Spec => []ListaEmDia
  OBVIOUS
<1>1. IInv /\ TypeOK' /\ [Next]_vars => IInv'
  BY PassoIInv
<1>2. IInv => ListaEmDia
  BY DEF IInv
<1>3. QED
  BY <1>1, <1>2, InicioIInv, Tipos, PTL DEF Spec

\* With one session two bookings of a room overlap only when the later one
\* contains the earlier: the only overlap hasScheduleConflict() lets through.
THEOREM SoContencao == SessaoUnica => (Spec => []SemSobreposicaoParcial)
<1> SUFFICES ASSUME SessaoUnica PROVE Spec => []SemSobreposicaoParcial
  OBVIOUS
<1>1. IInv /\ TypeOK' /\ [Next]_vars => IInv'
  BY PassoIInv
<1>2. IInv => SemSobreposicaoParcial
  BY DEF IInv
<1>3. QED
  BY <1>1, <1>2, InicioIInv, Tipos, PTL DEF Spec

\* With one session checking the list is as good as checking the table: the
\* page implements the agenda whose bookings are atomic.
THEOREM PaginaEAgenda == SessaoUnica => (Spec => ImplementaAgenda)
<1> SUFFICES ASSUME SessaoUnica PROVE Spec => ImplementaAgenda
  OBVIOUS
<1>1. IInv /\ TypeOK' /\ [Next]_vars => IInv' /\ [Ag!AgendaNext]_tabela
  BY PassoIInv
<1>2. Init => Ag!AgendaInit
  BY DEF Init, TelaInit, Ag!AgendaInit
<1>3. QED
  BY <1>1, <1>2, InicioIInv, Tipos, PTL DEF Spec, ImplementaAgenda, Ag!AgendaSpec

=============================================================================
