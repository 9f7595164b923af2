----------------------------- MODULE TelaProofs -----------------------------
(***************************************************************************)
(* Lemmas about the requests of an edit screen, for the proofs of the      *)
(* components that extend Tela.                                            *)
(***************************************************************************)
EXTENDS Tela, TLAPS

-----------------------------------------------------------------------------
(* The bean a request works on *)

LEMMA BeanTipo ==
    ASSUME TelaTypeOK, NEW s \in Sessoes
    PROVE  Bean(s) \in Beans
BY DEF TelaTypeOK, Bean, NovoBean, Beans

LEMMA SubmetidoTipo ==
    ASSUME TelaTypeOK, NEW s \in Sessoes, NEW f \in Registros
    PROVE  /\ Submetido(s, f) \in Beans
           /\ Submetido(s, f).id = Bean(s).id
           /\ Submetido(s, f).naLista = Bean(s).naLista
<1>1. Bean(s) \in Beans
  BY BeanTipo
<1>2. QED
  BY <1>1 DEF Submetido, Beans

LEMMA RefrescadoTipo ==
    ASSUME NEW b \in Beans, NEW tab \in [Ids -> Registros \cup {Nulo}]
    PROVE  /\ Refrescado(b, tab) \in Beans
           /\ Refrescado(b, tab).id = b.id
           /\ Refrescado(b, tab).lista = tab
           /\ Refrescado(b, tab).naLista = FALSE
BY DEF Refrescado, Beans

-----------------------------------------------------------------------------
(* Types *)

LEMMA AbreTipo ==
    ASSUME TelaTypeOK, NEW t \in Abas, AbrePagina(t)
    PROVE  TelaTypeOK'
BY TelaAssumption DEF TelaTypeOK, AbrePagina, NovoBean, Beans

LEMMA ExpiraTipo ==
    ASSUME TelaTypeOK, NEW s \in Sessoes, Expira(s)
    PROVE  TelaTypeOK'
BY TelaAssumption DEF TelaTypeOK, Expira

LEMMA NavegaTipo ==
    ASSUME TelaTypeOK, NEW t \in Abas, Navega(t)
    PROVE  TelaTypeOK'
<1> DEFINE s == SessaoDe[t]
<1>1. s \in Sessoes /\ Bean(s) \in Beans
  BY TelaAssumption, BeanTipo
<1>2. CASE SaiDaPagina(t) \/ FechaDialogo(t)
  BY <1>2, TelaAssumption DEF TelaTypeOK, SaiDaPagina, FechaDialogo
<1>3. CASE Adiciona(t)
  <2>1. [Bean(s) EXCEPT !.id = Nulo, !.naLista = FALSE] \in Beans
    BY <1>1 DEF Beans
  <2>2. QED
    BY <1>1, <1>3, <2>1 DEF TelaTypeOK, Adiciona
<1>4. ASSUME NEW i \in Ids, Edita(t, i)
      PROVE  TelaTypeOK'
  <2>1. [Bean(s) EXCEPT !.id = i, !.naLista = TRUE] \in Beans
    BY <1>1 DEF Beans
  <2>2. QED
    BY <1>1, <1>4, <2>1 DEF TelaTypeOK, Edita
<1>5. ASSUME NEW i \in Ids, ExcluiExistente(t, i)
      PROVE  TelaTypeOK'
  <2>1. tabela' \in [Ids -> Registros \cup {Nulo}]
    BY <1>5 DEF TelaTypeOK, ExcluiExistente
  <2>2. Refrescado(Bean(s), tabela') \in Beans
    BY <1>1, <2>1, RefrescadoTipo
  <2>3. falhas' \in 0..MaxFalhas
    BY <1>5, TelaAssumption DEF TelaTypeOK, ExcluiExistente, Falha
  <2>4. QED
    BY <1>1, <1>5, <2>1, <2>2, <2>3 DEF TelaTypeOK, ExcluiExistente
<1>6. ASSUME NEW i \in Ids, ExcluiSemEfeito(t, i)
      PROVE  TelaTypeOK'
  <2>1. falhas' \in 0..MaxFalhas
    BY <1>6, TelaAssumption DEF TelaTypeOK, ExcluiSemEfeito, Falha
  <2>2. QED
    BY <1>1, <1>6, <2>1 DEF TelaTypeOK, ExcluiSemEfeito
<1>7. QED
  BY <1>2, <1>3, <1>4, <1>5, <1>6 DEF Navega

LEMMA GravaTipo ==
    ASSUME TelaTypeOK, NEW t \in Abas, NEW b \in Beans, NEW f \in Registros,
           Grava(t, b, f)
    PROVE  /\ TelaTypeOK'
           /\ Alvo(b) \in Ids
<1> DEFINE s == SessaoDe[t]
           i == Alvo(b)
<1>1. s \in Sessoes
  BY TelaAssumption
<1>2. i \in Ids
  BY DEF Grava, Gravavel, Alvo, Beans
<1>3. tabela' \in [Ids -> Registros \cup {Nulo}]
  BY <1>2 DEF TelaTypeOK, Grava
<1>4. [b EXCEPT !.id = i] \in Beans
  BY <1>2 DEF Beans
<1>5. Refrescado([b EXCEPT !.id = i], tabela') \in Beans
  BY <1>3, <1>4, RefrescadoTipo
<1>6. bean' \in [Sessoes -> Beans \cup {Nulo}]
  BY <1>1, <1>4, <1>5 DEF TelaTypeOK, Grava
<1>7. proximo' \in 1..MaxId + 1
  BY TelaAssumption DEF TelaTypeOK, Grava, Gravavel, Ids
<1>8. dialogo' \in [Abas -> Ids \cup {Nulo, Fechado}]
  BY DEF TelaTypeOK, Grava
<1>9. falhas' \in 0..MaxFalhas
  BY TelaAssumption DEF TelaTypeOK, Grava, Falha
<1>10. QED
  BY <1>2, <1>3, <1>6, <1>7, <1>8, <1>9 DEF TelaTypeOK

LEMMA NaoGravaTipo ==
    ASSUME TelaTypeOK, NEW t \in Abas, NEW b \in Beans, NaoGrava(t, b)
    PROVE  TelaTypeOK'
<1>1. SessaoDe[t] \in Sessoes
  BY TelaAssumption
<1>2. proximo \in Ids => [b EXCEPT !.id = proximo] \in Beans
  BY DEF Beans
<1>3. bean' \in [Sessoes -> Beans \cup {Nulo}]
  BY <1>1, <1>2 DEF TelaTypeOK, NaoGrava
<1>4. proximo' \in 1..MaxId + 1
  BY TelaAssumption DEF TelaTypeOK, NaoGrava, Ids
<1>5. falhas' \in 0..MaxFalhas
  BY TelaAssumption DEF TelaTypeOK, NaoGrava, Falha
<1>6. QED
  BY <1>3, <1>4, <1>5 DEF TelaTypeOK, NaoGrava

-----------------------------------------------------------------------------
(* Steps of the table: what each request does to it is a step of Cadastro   *)

LEMMA NavegaCadastro ==
    ASSUME NEW t \in Abas, Navega(t)
    PROVE  Cad!CadastroNext \/ UNCHANGED <<tabela, proximo>>
<1>1. CASE SaiDaPagina(t) \/ FechaDialogo(t) \/ Adiciona(t)
  BY <1>1 DEF SaiDaPagina, FechaDialogo, Adiciona
<1>2. CASE \E i \in Ids : Edita(t, i) \/ ExcluiSemEfeito(t, i)
  BY <1>2 DEF Edita, ExcluiSemEfeito
<1>3. ASSUME NEW i \in Ids, ExcluiExistente(t, i)
      PROVE  Cad!Remove(i)
  BY <1>3 DEF ExcluiExistente, Cad!Remove
<1>4. QED
  BY <1>1, <1>2, <1>3 DEF Navega, Cad!CadastroNext, Ids, Cad!Chaves

LEMMA GravaCadastro ==
    ASSUME NEW t \in Abas, NEW b \in Beans, NEW f \in Registros, Grava(t, b, f)
    PROVE  Cad!CadastroNext
<1>1. CASE b.id = Nulo
  <2>1. Cad!Insere(f)
    BY <1>1 DEF Grava, Gravavel, Alvo, Cad!Insere, Ids, Cad!Chaves
  <2>2. QED
    BY <2>1 DEF Cad!CadastroNext
<1>2. CASE b.id # Nulo
  <2>1. b.id \in Cad!Chaves
    BY <1>2 DEF Beans, Ids, Cad!Chaves
  <2>2. Cad!Altera(b.id, f)
    BY <1>2 DEF Grava, Gravavel, Alvo, Cad!Altera
  <2>3. QED
    BY <2>1, <2>2 DEF Cad!CadastroNext
<1>3. QED
  BY <1>1, <1>2

LEMMA NaoGravaCadastro ==
    ASSUME NEW t \in Abas, NEW b \in Beans, NaoGrava(t, b)
    PROVE  Cad!CadastroNext \/ UNCHANGED <<tabela, proximo>>
BY DEF NaoGrava, Cad!CadastroNext, Cad!Descarta, Ids, Cad!Chaves

LEMMA InicioCadastro == TelaInit => Cad!CadastroInit
BY DEF TelaInit, Cad!CadastroInit, Ids, Cad!Chaves

-----------------------------------------------------------------------------
(* Sessions with one tab: the bean edits what the dialog shows              *)

UmaAbaPorSessao == \A t, u \in Abas : SessaoDe[t] = SessaoDe[u] => t = u

\* The dialog of a tab and the object its bean edits.
DialogoDe(t) ==
    dialogo[t] # Fechado =>
        /\ bean[SessaoDe[t]] # Nulo
        /\ dialogo[t] \in Ids => bean[SessaoDe[t]].id = dialogo[t]
        /\ dialogo[t] = Nulo => bean[SessaoDe[t]].id = Nulo \/ falhas > 0

LivresSemLinha == \A i \in Ids : i >= proximo => tabela[i] = Nulo

DialogoInv == LivresSemLinha /\ \A t \in Abas : DialogoDe(t)

\* The rows a step writes were opened by some tab: the action of SalvaOQueAbriu.
GravouOQueAbriu ==
    \A i \in Ids :
        tabela'[i] \notin {Nulo, tabela[i]} =>
            \E t \in Abas :
                \/ dialogo[t] = i
                \/ /\ dialogo[t] = Nulo
                   /\ \/ tabela[i] = Nulo
                      \/ falhas > 0 /\ bean[SessaoDe[t]].id = i

LEMMA InicioDialogo == TelaInit => DialogoInv
BY DEF TelaInit, DialogoInv, DialogoDe, LivresSemLinha

LEMMA FalhasCrescem ==
    ASSUME TelaTypeOK, UNCHANGED falhas \/ Falha
    PROVE  falhas > 0 => falhas' > 0
BY DEF TelaTypeOK, Falha

LEMMA NavegaDialogo ==
    ASSUME TelaTypeOK, DialogoInv, UmaAbaPorSessao, NEW t \in Abas,
           Navega(t) \/ AbrePagina(t)
    PROVE  DialogoInv' /\ GravouOQueAbriu
<1> DEFINE s == SessaoDe[t]
<1>1. s \in Sessoes /\ Bean(s) \in Beans
  BY TelaAssumption, BeanTipo
<1>2. \A u \in Abas \ {t} : SessaoDe[u] # s /\ SessaoDe[u] \in Sessoes
  BY TelaAssumption DEF UmaAbaPorSessao
<1>3. CASE AbrePagina(t) \/ SaiDaPagina(t) \/ FechaDialogo(t)
  BY <1>1, <1>2, <1>3
     DEF TelaTypeOK, DialogoInv, DialogoDe, LivresSemLinha, GravouOQueAbriu, AbrePagina, SaiDaPagina, FechaDialogo
<1>4. CASE Adiciona(t)
  <2>1. /\ [Bean(s) EXCEPT !.id = Nulo, !.naLista = FALSE].id = Nulo
        /\ [Bean(s) EXCEPT !.id = Nulo, !.naLista = FALSE] \in Beans
    BY <1>1 DEF Beans
  <2>2. QED
    BY <1>1, <1>2, <1>4, <2>1, TelaAssumption
       DEF TelaTypeOK, DialogoInv, DialogoDe, LivresSemLinha, GravouOQueAbriu, Adiciona
<1>5. ASSUME NEW i \in Ids, Edita(t, i)
      PROVE  DialogoInv' /\ GravouOQueAbriu
  <2>1. /\ [Bean(s) EXCEPT !.id = i, !.naLista = TRUE].id = i
        /\ [Bean(s) EXCEPT !.id = i, !.naLista = TRUE] \in Beans
    BY <1>1 DEF Beans
  <2>2. QED
    BY <1>1, <1>2, <1>5, <2>1, TelaAssumption
       DEF TelaTypeOK, DialogoInv, DialogoDe, LivresSemLinha, GravouOQueAbriu, Edita
<1>6. ASSUME NEW i \in Ids, ExcluiExistente(t, i) \/ ExcluiSemEfeito(t, i)
      PROVE  DialogoInv' /\ GravouOQueAbriu
  <2>1. dialogo[t] = Fechado /\ UNCHANGED <<dialogo, proximo>>
    BY <1>6 DEF ExcluiExistente, ExcluiSemEfeito, SemDialogo
  <2>2. falhas > 0 => falhas' > 0
    BY <1>6, FalhasCrescem DEF ExcluiExistente, ExcluiSemEfeito
  <2>3. \A j \in Ids : tabela'[j] = Nulo \/ tabela'[j] = tabela[j]
    BY <1>6 DEF TelaTypeOK, ExcluiExistente, ExcluiSemEfeito
  <2>4. \A u \in Abas \ {t} : bean'[SessaoDe[u]] = bean[SessaoDe[u]]
    BY <1>1, <1>2, <1>6 DEF TelaTypeOK, ExcluiExistente, ExcluiSemEfeito
  <2>5. QED
    BY <2>1, <2>2, <2>3, <2>4
       DEF TelaTypeOK, DialogoInv, DialogoDe, LivresSemLinha, GravouOQueAbriu
<1>7. QED
  BY <1>3, <1>4, <1>5, <1>6 DEF Navega

LEMMA ExpiraDialogo ==
    ASSUME TelaTypeOK, DialogoInv, NEW s \in Sessoes, Expira(s)
    PROVE  DialogoInv' /\ GravouOQueAbriu
BY TelaAssumption
   DEF TelaTypeOK, DialogoInv, DialogoDe, LivresSemLinha, GravouOQueAbriu, Expira

\* A form that is refused changes no row and keeps the object under edition.
LEMMA RecusaDialogo ==
    ASSUME TelaTypeOK, DialogoInv, UmaAbaPorSessao, NEW t \in Abas,
           NEW c \in Beans, c.id = Bean(SessaoDe[t]).id,
           bean' = [bean EXCEPT ![SessaoDe[t]] = c],
           UNCHANGED falhas \/ Falha,
           UNCHANGED <<tabela, proximo, dialogo>>
    PROVE  DialogoInv' /\ GravouOQueAbriu
<1>1. SessaoDe[t] \in Sessoes /\ c # Nulo
  BY TelaAssumption
<1>2. \A u \in Abas \ {t} : bean'[SessaoDe[u]] = bean[SessaoDe[u]]
  BY TelaAssumption DEF UmaAbaPorSessao, TelaTypeOK
<1>3. falhas > 0 => falhas' > 0
  BY FalhasCrescem
<1>4. dialogo[t] # Fechado => c.id = bean[SessaoDe[t]].id
  BY DEF DialogoInv, DialogoDe, Bean
<1>5. bean'[SessaoDe[t]] = c
  BY <1>1 DEF TelaTypeOK
<1>6. QED
  BY <1>1, <1>2, <1>3, <1>4, <1>5
     DEF DialogoInv, DialogoDe, LivresSemLinha, GravouOQueAbriu, TelaTypeOK

LEMMA GravaDialogo ==
    ASSUME TelaTypeOK, DialogoInv, UmaAbaPorSessao, NEW t \in Abas,
           dialogo[t] # Fechado,
           NEW b \in Beans, b.id = Bean(SessaoDe[t]).id,
           NEW f \in Registros, Grava(t, b, f)
    PROVE  DialogoInv' /\ GravouOQueAbriu
<1> DEFINE s == SessaoDe[t]
           i == Alvo(b)
           c == bean'[s]
<1>1. s \in Sessoes /\ i \in Ids /\ TelaTypeOK'
  BY TelaAssumption, GravaTipo
<1>2. b.id = bean[s].id
  BY DEF DialogoInv, DialogoDe, Bean
<1>3. [b EXCEPT !.id = i] \in Beans /\ [b EXCEPT !.id = i].id = i
  BY <1>1 DEF Beans
<1>4. c \in Beans /\ c.id = i
  <2>1. /\ Refrescado([b EXCEPT !.id = i], tabela') \in Beans
        /\ Refrescado([b EXCEPT !.id = i], tabela').id = i
    BY <1>1, <1>3, RefrescadoTipo DEF TelaTypeOK
  <2>2. QED
    BY <1>1, <1>3, <2>1 DEF Grava, TelaTypeOK
<1>5. \A u \in Abas \ {t} : /\ bean'[SessaoDe[u]] = bean[SessaoDe[u]]
                            /\ dialogo'[u] = dialogo[u]
  BY TelaAssumption DEF UmaAbaPorSessao, TelaTypeOK, Grava
<1>6. falhas > 0 => falhas' > 0
  BY FalhasCrescem DEF Grava
<1>7. LivresSemLinha'
  <2>1. i < proximo' /\ proximo' >= proximo
    BY <1>1 DEF Grava, Gravavel, Alvo, DialogoInv, LivresSemLinha, TelaTypeOK, Ids, Beans
  <2>2. QED
    BY <1>1, <2>1 DEF Grava, DialogoInv, LivresSemLinha, TelaTypeOK, Ids
<1>8. dialogo'[t] # Fechado => dialogo'[t] = dialogo[t] /\ falhas' > 0
  BY DEF Grava, Falha, TelaTypeOK
<1>9. dialogo[t] \in Ids => i = dialogo[t]
  BY <1>2, TelaAssumption DEF DialogoInv, DialogoDe, Alvo
<1>10. c # Nulo
  BY <1>4, TelaAssumption
<1>11. DialogoInv'
  <2>1. DialogoDe(t)'
    BY <1>4, <1>8, <1>9, <1>10 DEF DialogoDe
  <2>2. ASSUME NEW u \in Abas \ {t}
        PROVE  DialogoDe(u)'
    BY <1>5, <1>6 DEF DialogoInv, DialogoDe
  <2>3. QED
    BY <1>7, <2>1, <2>2 DEF DialogoInv
<1>12. GravouOQueAbriu
  <2>1. \A j \in Ids \ {i} : tabela'[j] = tabela[j]
    BY DEF Grava, TelaTypeOK
  <2>2. CASE dialogo[t] \in Ids
    BY <1>9, <2>1, <2>2 DEF GravouOQueAbriu
  <2>3. CASE dialogo[t] = Nulo /\ b.id = Nulo
    <3>1. tabela[i] = Nulo
      BY <2>3, <1>1 DEF Alvo, DialogoInv, LivresSemLinha, TelaTypeOK
    <3>2. QED
      BY <2>1, <2>3, <3>1 DEF GravouOQueAbriu
  <2>4. CASE dialogo[t] = Nulo /\ b.id # Nulo
    <3>1. falhas > 0 /\ bean[s].id = i
      BY <1>2, <2>4, TelaAssumption DEF Alvo, DialogoInv, DialogoDe
    <3>2. QED
      BY <2>1, <2>4, <3>1 DEF GravouOQueAbriu
  <2>5. QED
    BY <2>2, <2>3, <2>4 DEF TelaTypeOK
<1>13. QED
  BY <1>11, <1>12

LEMMA NaoGravaDialogo ==
    ASSUME TelaTypeOK, DialogoInv, UmaAbaPorSessao, NEW t \in Abas,
           dialogo[t] # Fechado,
           NEW b \in Beans, b.id = Bean(SessaoDe[t]).id, NaoGrava(t, b)
    PROVE  DialogoInv' /\ GravouOQueAbriu
<1> DEFINE s == SessaoDe[t]
<1>1. s \in Sessoes /\ TelaTypeOK'
  BY TelaAssumption, NaoGravaTipo
<1>2. b.id = bean[s].id
  BY DEF DialogoInv, DialogoDe, Bean
<1>3. \A u \in Abas \ {t} : bean'[SessaoDe[u]] = bean[SessaoDe[u]]
  BY TelaAssumption DEF UmaAbaPorSessao, TelaTypeOK, NaoGrava
<1>4. falhas > 0 => falhas' > 0
  BY FalhasCrescem DEF NaoGrava
<1>5. bean'[s] # Nulo /\ (bean'[s].id = b.id \/ (b.id = Nulo /\ falhas' > 0))
  <2>1. proximo \in Ids => [b EXCEPT !.id = proximo] \in Beans
    BY DEF Beans
  <2>2. QED
    BY <1>1, <2>1, TelaAssumption DEF NaoGrava, TelaTypeOK, Falha
<1>6. UNCHANGED <<tabela, dialogo>> /\ LivresSemLinha'
  BY <1>1 DEF NaoGrava, DialogoInv, LivresSemLinha, TelaTypeOK, Ids
<1>7. DialogoDe(t)'
  BY <1>2, <1>4, <1>5, <1>6, TelaAssumption DEF DialogoInv, DialogoDe
<1>8. ASSUME NEW u \in Abas \ {t}
      PROVE  DialogoDe(u)'
  BY <1>3, <1>4, <1>6 DEF DialogoInv, DialogoDe
<1>9. QED
  BY <1>6, <1>7, <1>8 DEF DialogoInv, GravouOQueAbriu

-----------------------------------------------------------------------------
(* The lists against the table *)

\* What is to be shown of every step.
ListaPreservada == ElementosCertos' /\ EnvelhecePorFora

LEMMA BeanCerto ==
    ASSUME TelaTypeOK, ElementosCertos, NEW s \in Sessoes
    PROVE  /\ Bean(s) \in Beans /\ ElementoCerto(Bean(s))
           /\ EmDia(s) => Bean(s).lista = tabela
BY BeanTipo DEF ElementosCertos, ElementoCerto, EmDia, Bean, NovoBean

\* A form fills an element that is in the list.
LEMMA SubmetidoCerto ==
    ASSUME TelaTypeOK, ElementosCertos, NEW s \in Sessoes, NEW f \in Registros
    PROVE  /\ Submetido(s, f) \in Beans /\ ElementoCerto(Submetido(s, f))
           /\ ~Bean(s).naLista => Submetido(s, f).lista = Bean(s).lista
<1>1. /\ Bean(s) \in Beans /\ ElementoCerto(Bean(s))
      /\ Submetido(s, f) \in Beans
      /\ Submetido(s, f).id = Bean(s).id /\ Submetido(s, f).naLista = Bean(s).naLista
  BY BeanCerto, SubmetidoTipo
<1>2. CASE Bean(s).naLista
  <2>1. Submetido(s, f).lista = [Bean(s).lista EXCEPT ![Bean(s).id] = f]
    BY <1>1, <1>2 DEF Submetido, Beans
  <2>2. Submetido(s, f).lista[Bean(s).id] = f
    BY <1>1, <1>2, <2>1 DEF ElementoCerto, Beans
  <2> QED BY <1>1, <1>2, <2>2, TelaAssumption DEF ElementoCerto
<1>3. CASE ~Bean(s).naLista
  BY <1>1, <1>3 DEF Submetido, ElementoCerto
<1> QED BY <1>1, <1>2, <1>3

\* A step that changes no bean but one, and leaves it with the table, or leaves
\* it and the table as they were.
LEMMA UmBeanMuda ==
    ASSUME TelaTypeOK, ElementosCertos, NEW s \in Sessoes, NEW c \in Beans \cup {Nulo},
           bean' = [bean EXCEPT ![s] = c], c # Nulo => ElementoCerto(c),
           \/ falhas' # falhas
           \/ c.lista = tabela'
           \/ UNCHANGED tabela /\ (EmDia(s) => c = Nulo \/ c.lista = tabela)
    PROVE  ListaPreservada
<1>1. bean \in [Sessoes -> Beans \cup {Nulo}] /\ bean'[s] = c
      /\ \A u \in Sessoes \ {s} : bean'[u] = bean[u]
  BY DEF TelaTypeOK
<1>2. ElementosCertos'
  BY <1>1 DEF ElementosCertos, ElementoCerto
<1>3. ASSUME NEW u \in Sessoes, EmDia(u), ~EmDia(u)'
      PROVE  falhas' # falhas \/ (bean'[u] = bean[u] /\ tabela' # tabela)
  <2>1. CASE u = s
    BY <1>1, <1>3, <2>1 DEF EmDia
  <2>2. CASE u # s
    BY <1>1, <1>3, <2>2 DEF EmDia
  <2> QED BY <2>1, <2>2
<1> QED BY <1>2, <1>3 DEF ListaPreservada, EnvelhecePorFora

LEMMA FalhaMuda == ASSUME TelaTypeOK, Falha PROVE falhas' # falhas
BY TelaAssumption DEF TelaTypeOK, Falha

LEMMA AbreLista ==
    ASSUME TelaTypeOK, ElementosCertos, NEW t \in Abas, AbrePagina(t)
    PROVE  ListaPreservada
<1>1. NovoBean \in Beans /\ NovoBean.lista = tabela /\ ElementoCerto(NovoBean)
  BY DEF TelaTypeOK, NovoBean, Beans, ElementoCerto
<1> QED BY <1>1, TelaAssumption, UmBeanMuda DEF AbrePagina

LEMMA ExpiraLista ==
    ASSUME TelaTypeOK, ElementosCertos, NEW s \in Sessoes, Expira(s)
    PROVE  ListaPreservada
BY UmBeanMuda DEF Expira

LEMMA NavegaLista ==
    ASSUME TelaTypeOK, ElementosCertos, NEW t \in Abas, Navega(t)
    PROVE  ListaPreservada
<1> PICK s \in Sessoes : s = SessaoDe[t]
  BY TelaAssumption
<1>1. /\ Bean(s) \in Beans /\ ElementoCerto(Bean(s))
      /\ EmDia(s) => Bean(s).lista = tabela
      /\ tabela \in [Ids -> Registros \cup {Nulo}]
  BY BeanCerto DEF TelaTypeOK
<1>2. CASE SaiDaPagina(t)
  BY <1>2, UmBeanMuda DEF SaiDaPagina
<1>3. CASE FechaDialogo(t)
  BY <1>3 DEF FechaDialogo, ListaPreservada, ElementosCertos, EnvelhecePorFora, EmDia
<1>4. CASE Adiciona(t)
  <2> PICK c : c = [Bean(s) EXCEPT !.id = Nulo, !.naLista = FALSE]
    OBVIOUS
  <2>1. c \in Beans /\ ElementoCerto(c) /\ c.lista = Bean(s).lista
    BY <1>1 DEF Beans, ElementoCerto
  <2> QED BY <1>1, <1>4, <2>1, UmBeanMuda DEF Adiciona
<1>5. ASSUME NEW i \in Ids, Edita(t, i) PROVE ListaPreservada
  <2> PICK c : c = [Bean(s) EXCEPT !.id = i, !.naLista = TRUE]
    OBVIOUS
  <2>1. c \in Beans /\ c.id = i /\ c.lista = Bean(s).lista
    BY <1>1 DEF Beans
  <2>2. ElementoCerto(c)
    BY <1>5, <2>1 DEF Edita, ElementoCerto
  <2> QED BY <1>1, <1>5, <2>1, <2>2, UmBeanMuda DEF Edita
<1>6. ASSUME NEW i \in Ids, ExcluiExistente(t, i) PROVE ListaPreservada
  <2>1. tabela' \in [Ids -> Registros \cup {Nulo}]
    BY <1>1, <1>6 DEF ExcluiExistente
  <2> PICK c : c = Refrescado(Bean(s), tabela')
    OBVIOUS
  <2>2. c \in Beans /\ ElementoCerto(c) /\ c.lista = tabela'
    BY <1>1, <2>1, RefrescadoTipo DEF ElementoCerto
  <2>3. CASE bean' = [bean EXCEPT ![s] = c]
    BY <2>2, <2>3, UmBeanMuda
  <2>4. CASE bean' = [bean EXCEPT ![s] = Bean(s)] /\ Falha
    BY <1>1, <2>4, FalhaMuda, UmBeanMuda
  <2> QED BY <1>6, <2>3, <2>4 DEF ExcluiExistente
<1>7. ASSUME NEW i \in Ids, ExcluiSemEfeito(t, i) PROVE ListaPreservada
  BY <1>1, <1>7, UmBeanMuda DEF ExcluiSemEfeito
<1> QED BY <1>2, <1>3, <1>4, <1>5, <1>6, <1>7 DEF Navega

LEMMA GravaLista ==
    ASSUME TelaTypeOK, ElementosCertos, NEW t \in Abas, NEW f \in Registros,
           Grava(t, Submetido(SessaoDe[t], f), f)
    PROVE  ListaPreservada
<1> PICK s \in Sessoes : s = SessaoDe[t]
  BY TelaAssumption
<1> PICK b : b = Submetido(s, f)
  OBVIOUS
<1> PICK k : k = Alvo(b)
  OBVIOUS
<1>1. b \in Beans /\ ElementoCerto(b) /\ tabela \in [Ids -> Registros \cup {Nulo}]
  BY SubmetidoCerto DEF TelaTypeOK
<1>2. k \in Ids /\ (b.naLista => k = b.id)
  BY <1>1, TelaAssumption DEF Grava, Gravavel, Alvo, ElementoCerto, Beans
<1>3. tabela' \in [Ids -> Registros \cup {Nulo}]
  BY <1>1 DEF Grava
<1> PICK c : c = [b EXCEPT !.id = k]
  OBVIOUS
<1>4. c \in Beans /\ c.lista = b.lista /\ ElementoCerto(c)
  BY <1>1, <1>2 DEF Beans, ElementoCerto
<1>5. CASE bean' = [bean EXCEPT ![s] = Refrescado(c, tabela')]
  <2>1. /\ Refrescado(c, tabela') \in Beans /\ Refrescado(c, tabela').lista = tabela'
        /\ ElementoCerto(Refrescado(c, tabela'))
    BY <1>3, <1>4, RefrescadoTipo DEF ElementoCerto
  <2> QED BY <1>5, <2>1, UmBeanMuda
<1>6. CASE bean' = [bean EXCEPT ![s] = c] /\ Falha
  BY <1>4, <1>6, FalhaMuda, UmBeanMuda
<1> QED BY <1>5, <1>6 DEF Grava

LEMMA NaoGravaLista ==
    ASSUME TelaTypeOK, ElementosCertos, NEW t \in Abas, NEW f \in Registros,
           NaoGrava(t, Submetido(SessaoDe[t], f))
    PROVE  ListaPreservada
<1> PICK s \in Sessoes : s = SessaoDe[t]
  BY TelaAssumption
<1> PICK b : b = Submetido(s, f)
  OBVIOUS
<1>1. /\ b \in Beans /\ ElementoCerto(b)
      /\ Bean(s) \in Beans /\ ElementoCerto(Bean(s))
      /\ b.id = Bean(s).id /\ b.naLista = Bean(s).naLista
      /\ EmDia(s) => Bean(s).lista = tabela
      /\ ~Bean(s).naLista => b.lista = Bean(s).lista
  BY SubmetidoCerto, SubmetidoTipo, BeanCerto
<1>2. CASE b.id # Nulo /\ tabela[b.id] = Nulo /\ bean' = [bean EXCEPT ![s] = b]
  <2>1. EmDia(s) => ~Bean(s).naLista
    BY <1>1, <1>2 DEF ElementoCerto
  <2>2. EmDia(s) => b.lista = tabela
    BY <1>1, <2>1
  <2> QED BY <1>1, <1>2, <2>2, UmBeanMuda DEF NaoGrava
<1>3. CASE bean' = [bean EXCEPT ![s] = b] /\ Falha
  BY <1>1, <1>3, FalhaMuda, UmBeanMuda
<1>4. CASE /\ b.id = Nulo /\ proximo \in Ids
           /\ bean' = [bean EXCEPT ![s] = [b EXCEPT !.id = proximo]] /\ Falha
  <2>1. b.naLista = FALSE
    BY <1>1, <1>4, TelaAssumption DEF ElementoCerto, Beans
  <2>2. [b EXCEPT !.id = proximo] \in Beans /\ ElementoCerto([b EXCEPT !.id = proximo])
    BY <1>1, <1>4, <2>1 DEF Beans, ElementoCerto
  <2> QED BY <1>4, <2>2, FalhaMuda, UmBeanMuda
<1> QED BY <1>2, <1>3, <1>4 DEF NaoGrava

=============================================================================
