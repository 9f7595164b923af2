-------------------------- MODULE CoordenacaoProofs -------------------------
(***************************************************************************)
(* Theorems about the page of course coordinators, for any sessions, tabs, *)
(* courses, professors and failures.                                       *)
(***************************************************************************)
EXTENDS Coordenacao, FiniteSetTheorems, TLAPS

-----------------------------------------------------------------------------
(* What one request does to the bean of a session, and to the table          *)

\* The bean of the session s becomes another with the professors of b.
TrocaBean(s, b) == \E x \in Beans : bean' = [bean EXCEPT ![s] = x] /\ x.profs = b.profs

FalhasTipo == falhas' \in 0..MaxFalhas

\* The table changes as one insert, one removal or a wasted id change it.
Inclui ==
    \E p \in Professores, c \in Cursos :
        /\ proximo \in Ids /\ ~Repetida(p, c)
        /\ linhas' = linhas \cup {[id |-> proximo, curso |-> c, prof |-> p]}
        /\ proximo' = proximo + 1
Retira == \E x \in linhas : linhas' = linhas \ {x} /\ UNCHANGED proximo
GastaId == proximo \in Ids /\ UNCHANGED linhas /\ proximo' = proximo + 1

PassoDaTabela == Inclui \/ Retira \/ GastaId \/ UNCHANGED <<linhas, proximo>>

LEMMA BeanTipo ==
    ASSUME TypeOK, NEW s \in Sessoes
    PROVE  Bean(s) \in Beans
BY DEF TypeOK, Bean, NovoBean, Beans, Filtros

LEMMA FalhaTipo ==
    ASSUME TypeOK, UNCHANGED falhas \/ Falha
    PROVE  FalhasTipo
BY CoordenacaoAssumption DEF TypeOK, Falha, FalhasTipo

LEMMA RelidaTipo ==
    ASSUME TypeOK, NEW s \in Sessoes, NEW b \in Beans, linhas' \subseteq Linhas,
           Relida(s, b)
    PROVE  TrocaBean(s, b) /\ FalhasTipo
<1>1. ASSUME NEW L \in SUBSET Linhas
      PROVE  [b EXCEPT !.lista = L] \in Beans /\ [b EXCEPT !.lista = L].profs = b.profs
  BY DEF Beans
<1>2. Recupera(b.filtro, linhas') \in SUBSET Linhas
  BY DEF Recupera
<1>3. UNCHANGED falhas \/ Falha
  BY DEF Relida
<1>4. FalhasTipo
  BY <1>3, FalhaTipo
<1>5. CASE bean' = [bean EXCEPT ![s] = [b EXCEPT !.lista = Recupera(b.filtro, linhas')]]
  BY <1>1, <1>2, <1>4, <1>5 DEF TrocaBean
<1>6. CASE bean' = [bean EXCEPT ![s] = [b EXCEPT !.lista = {}]]
  BY <1>1, <1>4, <1>6 DEF TrocaBean
<1>7. QED
  BY <1>4, <1>5, <1>6 DEF Relida

LEMMA DeletePasso ==
    ASSUME TypeOK, NEW s \in Sessoes, NEW b \in Beans, NEW x, Delete(s, b, x)
    PROVE  /\ TrocaBean(s, b) /\ FalhasTipo
           /\ UNCHANGED proximo => Retira \/ UNCHANGED <<linhas, proximo>>
           /\ linhas' \subseteq Linhas
<1>1. CASE /\ x \in linhas /\ Apaga(x)
           /\ Relida(s, b) \/ (bean' = [bean EXCEPT ![s] = b] /\ Falha)
  <2>1. linhas' \subseteq Linhas /\ linhas' = linhas \ {x}
    BY <1>1 DEF TypeOK, Apaga
  <2>2. CASE Relida(s, b)
    BY <1>1, <2>1, <2>2, RelidaTipo DEF Retira
  <2>3. CASE bean' = [bean EXCEPT ![s] = b] /\ Falha
    BY <1>1, <2>1, <2>3, FalhaTipo DEF Retira, TrocaBean
  <2>4. QED
    BY <1>1, <2>2, <2>3
<1>2. CASE /\ bean' = [bean EXCEPT ![s] = b] /\ UNCHANGED linhas
           /\ UNCHANGED falhas \/ Falha
  BY <1>2, FalhaTipo DEF TrocaBean, TypeOK
<1>3. QED
  BY <1>1, <1>2 DEF Delete

LEMMA PersistPasso ==
    ASSUME TypeOK, NEW s \in Sessoes, NEW b \in Beans,
           NEW p \in Professores, NEW c \in Cursos, Persist(s, b, p, c)
    PROVE  /\ TrocaBean(s, b) /\ FalhasTipo
           /\ PassoDaTabela
           /\ \A l \in linhas' \ linhas : l.prof = p /\ l.curso = c
           /\ linhas' \subseteq Linhas /\ proximo' \in 1..MaxId + 1
<1>1. CASE /\ ~Repetida(p, c) /\ proximo \in Ids
           /\ linhas' = linhas \cup {[id |-> proximo, curso |-> c, prof |-> p]}
           /\ proximo' = proximo + 1
           /\ Relida(s, b) \/ (bean' = [bean EXCEPT ![s] = b] /\ Falha)
  <2>1. linhas' \subseteq Linhas
    BY <1>1 DEF TypeOK, Linhas
  <2>2. proximo' \in 1..MaxId + 1
    BY <1>1, CoordenacaoAssumption DEF TypeOK, Ids
  <2>3. \A l \in linhas' \ linhas : l.prof = p /\ l.curso = c
    BY <1>1
  <2>4. Inclui
    BY <1>1 DEF Inclui
  <2>5. CASE Relida(s, b)
    BY <2>1, <2>2, <2>3, <2>4, <2>5, RelidaTipo DEF PassoDaTabela
  <2>6. CASE bean' = [bean EXCEPT ![s] = b] /\ Falha
    BY <2>1, <2>2, <2>3, <2>4, <2>6, FalhaTipo DEF PassoDaTabela, TrocaBean
  <2>7. QED
    BY <1>1, <2>5, <2>6
<1>2. CASE /\ bean' = [bean EXCEPT ![s] = b] /\ UNCHANGED linhas
           /\ UNCHANGED falhas \/ Falha
           /\ proximo' = proximo \/ (proximo \in Ids /\ proximo' = proximo + 1)
  <2>1. proximo' \in 1..MaxId + 1
    BY <1>2, CoordenacaoAssumption DEF TypeOK, Ids
  <2>2. PassoDaTabela
    BY <1>2 DEF PassoDaTabela, GastaId
  <2>3. QED
    BY <1>2, <2>1, <2>2, FalhaTipo DEF TrocaBean, TypeOK
<1>3. QED
  BY <1>1, <1>2 DEF Persist

\* The two requests that write the table.
LEMMA ExcluiPasso ==
    ASSUME TypeOK, NEW t \in Abas, tela[t] # Nulo,
           NEW r \in tela[t].grade, NEW c \in Filtros, Exclui(t, r, c)
    PROVE  /\ TypeOK' /\ PassoDaTabela
           /\ TrocaBean(SessaoDe[t], Bean(SessaoDe[t]))
           /\ ~tela'[t].aberto /\ tela'[t] # Nulo
           /\ tela'[t].grade = bean'[SessaoDe[t]].lista
           /\ \A u \in Abas \ {t} : tela'[u] = tela[u]
<1> DEFINE s == SessaoDe[t]
           b == [Bean(s) EXCEPT !.filtro = c]
           alvo == NaPosicaoDe(r, tela[t].grade, b.lista)
<1>1. s \in Sessoes /\ Bean(s) \in Beans
  BY CoordenacaoAssumption, BeanTipo
<1>2. b \in Beans /\ b.profs = Bean(s).profs
  BY <1>1 DEF Beans
<1>3. /\ NaPagina(t)
      /\ \/ \E x \in alvo : Delete(s, b, x)
         \/ bean' = [bean EXCEPT ![s] = b] /\ UNCHANGED <<linhas, falhas>>
      /\ tela' = [tela EXCEPT ![t].grade = bean'[s].lista]
      /\ UNCHANGED <<proximo, admin, papel>>
  BY DEF Exclui
<1>4. /\ TrocaBean(s, b) /\ FalhasTipo
      /\ PassoDaTabela /\ linhas' \subseteq Linhas
  <2>1. CASE \E x \in alvo : Delete(s, b, x)
    BY <1>1, <1>2, <1>3, <2>1, DeletePasso DEF PassoDaTabela
  <2>2. CASE bean' = [bean EXCEPT ![s] = b] /\ UNCHANGED <<linhas, falhas>>
    BY <1>2, <1>3, <2>2, FalhaTipo DEF PassoDaTabela, TrocaBean, TypeOK
  <2>3. QED
    BY <1>3, <2>1, <2>2
<1>5. PICK y \in Beans : bean' = [bean EXCEPT ![s] = y] /\ y.profs = b.profs
  BY <1>4 DEF TrocaBean
<1>6. bean' \in [Sessoes -> Beans \cup {Nulo}] /\ bean'[s].lista \in SUBSET Linhas
  BY <1>1, <1>5 DEF TypeOK, Beans
<1>7. tela[t] \in Telas /\ ~tela[t].aberto
  BY <1>3 DEF TypeOK, NaPagina
<1>8. tela' = [tela EXCEPT ![t] = [tela[t] EXCEPT !.grade = bean'[s].lista]]
  BY <1>3
<1>9. /\ [tela[t] EXCEPT !.grade = bean'[s].lista] \in Telas
      /\ ~[tela[t] EXCEPT !.grade = bean'[s].lista].aberto
      /\ [tela[t] EXCEPT !.grade = bean'[s].lista].grade = bean'[s].lista
  BY <1>6, <1>7 DEF Telas
<1>10. /\ tela' \in [Abas -> Telas \cup {Nulo}]
       /\ tela'[t] \in Telas /\ ~tela'[t].aberto
       /\ tela'[t].grade = bean'[s].lista
       /\ \A u \in Abas \ {t} : tela'[u] = tela[u]
  BY <1>8, <1>9 DEF TypeOK
<1>11. TypeOK'
  BY <1>3, <1>4, <1>6, <1>10 DEF TypeOK, FalhasTipo
<1>12. TrocaBean(s, Bean(s))
  BY <1>2, <1>4 DEF TrocaBean
<1>13. QED
  BY <1>4, <1>10, <1>11, <1>12, CoordenacaoAssumption

LEMMA PersistePasso ==
    ASSUME TypeOK, NEW t \in Abas, tela[t] # Nulo,
           NEW p \in tela[t].profs, NEW c \in Cursos, Persiste(t, p, c)
    PROVE  /\ TypeOK' /\ PassoDaTabela
           /\ TrocaBean(SessaoDe[t], Bean(SessaoDe[t]))
           /\ tela'[t] # Nulo /\ tela'[t].profs = bean'[SessaoDe[t]].profs
           /\ tela'[t].grade = bean'[SessaoDe[t]].lista
           /\ \A u \in Abas \ {t} : tela'[u] = tela[u]
<1> DEFINE s == SessaoDe[t]
           b == Bean(s)
           alvo == ProfNaPosicaoDe(p, tela[t].profs, b.profs)
<1>1. s \in Sessoes /\ b \in Beans
  BY CoordenacaoAssumption, BeanTipo
<1>2. alvo \subseteq Professores
  BY <1>1 DEF ProfNaPosicaoDe, Beans
<1>3. /\ \/ \E q \in alvo : Persist(s, b, q, c)
         \/ bean' = [bean EXCEPT ![s] = b] /\ UNCHANGED <<linhas, proximo, falhas>>
      /\ \E fica \in BOOLEAN :
            tela' = [tela EXCEPT ![t] = [grade  |-> bean'[s].lista,
                                         profs  |-> bean'[s].profs,
                                         aberto |-> fica]]
      /\ UNCHANGED <<admin, papel>>
  BY DEF Persiste
<1>4. /\ TrocaBean(s, b) /\ FalhasTipo
      /\ PassoDaTabela /\ linhas' \subseteq Linhas /\ proximo' \in 1..MaxId + 1
  <2>1. CASE \E q \in alvo : Persist(s, b, q, c)
    BY <1>1, <1>2, <2>1, PersistPasso
  <2>2. CASE bean' = [bean EXCEPT ![s] = b] /\ UNCHANGED <<linhas, proximo, falhas>>
    BY <1>1, <2>2, FalhaTipo DEF PassoDaTabela, TrocaBean, TypeOK
  <2>3. QED
    BY <1>3, <2>1, <2>2
<1>5. PICK y \in Beans : bean' = [bean EXCEPT ![s] = y] /\ y.profs = b.profs
  BY <1>4 DEF TrocaBean
<1>6. bean' \in [Sessoes -> Beans \cup {Nulo}] /\ bean'[s] = y
  BY <1>1, <1>5 DEF TypeOK
<1>7. y.lista \in SUBSET Linhas /\ y.profs \in SUBSET Professores
  BY DEF Beans
<1>8. PICK fica \in BOOLEAN :
         tela' = [tela EXCEPT ![t] = [grade |-> y.lista, profs |-> y.profs, aberto |-> fica]]
  BY <1>3, <1>6
<1>9. [grade |-> y.lista, profs |-> y.profs, aberto |-> fica] \in Telas
  BY <1>7 DEF Telas
<1>10. /\ tela' \in [Abas -> Telas \cup {Nulo}]
       /\ tela'[t] \in Telas /\ tela'[t].profs = y.profs /\ tela'[t].grade = y.lista
       /\ \A u \in Abas \ {t} : tela'[u] = tela[u]
  BY <1>8, <1>9 DEF TypeOK
<1>11. TypeOK'
  BY <1>3, <1>4, <1>6, <1>10 DEF TypeOK, FalhasTipo
<1>12. QED
  BY <1>4, <1>6, <1>10, <1>11, CoordenacaoAssumption

-----------------------------------------------------------------------------
(* The other requests leave the table alone                                  *)

LEMMA SessaoPasso ==
    ASSUME TypeOK, NEW s \in Sessoes,
           Expira(s)
    PROVE  TypeOK' /\ UNCHANGED <<linhas, proximo>>
<1>1. admin' \in [Sessoes -> BOOLEAN] /\ papel' \in [Sessoes -> SUBSET Cursos]
  BY DEF TypeOK, Expira
<1>2. bean' \in [Sessoes -> Beans \cup {Nulo}] /\ tela' \in [Abas -> Telas \cup {Nulo}]
  BY DEF TypeOK, Expira
<1>3. QED
  BY <1>1, <1>2 DEF TypeOK, Expira

LEMMA AbaPasso ==
    ASSUME TypeOK, NEW t \in Abas,
           \/ (\E u \in Usuarios : Entra(t, u)) \/ Sai(t) \/ AbrePagina(t) \/ SaiDaPagina(t) \/ FechaDialogo(t)
           \/ \E c \in Filtros : Busca(t, c) \/ Cria(t, c)
           \/ \E x \in Textos : Filtra(t, x)
    PROVE  TypeOK' /\ UNCHANGED <<linhas, proximo>>
<1> DEFINE s == SessaoDe[t]
<1>1. s \in Sessoes /\ Bean(s) \in Beans
  BY CoordenacaoAssumption, BeanTipo
<1>2. CASE Sai(t)
  BY <1>1, <1>2 DEF TypeOK, Sai
<1>3. CASE AbrePagina(t)
  <2>1. NovoBean \in Beans /\ [grade |-> linhas, profs |-> {}, aberto |-> FALSE] \in Telas
    BY DEF TypeOK, NovoBean, Beans, Filtros, Telas
  <2>2. QED
    BY <1>1, <1>3, <2>1 DEF TypeOK, AbrePagina
<1>4. CASE SaiDaPagina(t)
  BY <1>1, <1>4 DEF TypeOK, SaiDaPagina
<1>5. CASE FechaDialogo(t)
  <2>1. tela[t] \in Telas /\ tela' = [tela EXCEPT ![t] = [tela[t] EXCEPT !.aberto = FALSE]]
    BY <1>5 DEF TypeOK, FechaDialogo
  <2>2. [tela[t] EXCEPT !.aberto = FALSE] \in Telas
    BY <2>1 DEF Telas
  <2>3. tela' \in [Abas -> Telas \cup {Nulo}]
    BY <2>1, <2>2 DEF TypeOK
  <2>4. QED
    BY <1>5, <2>3 DEF TypeOK, FechaDialogo
<1>6. ASSUME NEW c \in Filtros, Busca(t, c)
      PROVE  TypeOK' /\ UNCHANGED <<linhas, proximo>>
  <2>1. PICK L \in {Recupera(c, linhas), {}} :
           /\ bean' = [bean EXCEPT ![s] = [Bean(s) EXCEPT !.filtro = c, !.lista = L]]
           /\ UNCHANGED falhas \/ Falha
    BY <1>6 DEF Busca
  <2>2. L \in SUBSET Linhas
    BY DEF TypeOK, Recupera
  <2>3. [Bean(s) EXCEPT !.filtro = c, !.lista = L] \in Beans
    BY <1>1, <2>2 DEF Beans
  <2>4. bean' \in [Sessoes -> Beans \cup {Nulo}]
    BY <2>1, <2>3 DEF TypeOK
  <2>5. FalhasTipo
    BY <2>1, FalhaTipo
  <2>6. QED
    BY <1>6, <2>4, <2>5 DEF TypeOK, FalhasTipo, Busca
<1>7. ASSUME NEW c \in Filtros, Cria(t, c)
      PROVE  TypeOK' /\ UNCHANGED <<linhas, proximo>>
  <2> DEFINE b == [Bean(s) EXCEPT !.filtro = c, !.profs = Professores, !.opcoes = TRUE]
             q == [tela[t] EXCEPT !.profs = Professores, !.aberto = TRUE]
  <2>1. b \in Beans
    BY <1>1 DEF Beans
  <2>2. tela[t] \in Telas
    BY <1>7 DEF TypeOK, Cria, NaPagina
  <2>3. q \in Telas
    BY <2>2 DEF Telas
  <2>4. bean' = [bean EXCEPT ![s] = b] /\ tela' = [tela EXCEPT ![t] = q]
    BY <1>7, <2>2 DEF Cria, TypeOK, Telas
  <2>5. bean' \in [Sessoes -> Beans \cup {Nulo}] /\ tela' \in [Abas -> Telas \cup {Nulo}]
    BY <2>1, <2>3, <2>4 DEF TypeOK
  <2>6. QED
    BY <1>7, <2>5 DEF TypeOK, Cria
<1>8. ASSUME NEW x \in Textos, Filtra(t, x)
      PROVE  TypeOK' /\ UNCHANGED <<linhas, proximo>>
  <2> DEFINE b == [Bean(s) EXCEPT !.profs = Casa[x]]
             q == [tela[t] EXCEPT !.profs = Casa[x]]
  <2>1. b \in Beans
    BY <1>1, CoordenacaoAssumption DEF Beans
  <2>2. tela[t] \in Telas
    BY <1>8 DEF TypeOK, Filtra, NoDialogo
  <2>3. q \in Telas
    BY <2>2, CoordenacaoAssumption DEF Telas
  <2>4. bean' = [bean EXCEPT ![s] = b] /\ tela' = [tela EXCEPT ![t] = q]
    BY <1>8 DEF Filtra
  <2>5. bean' \in [Sessoes -> Beans \cup {Nulo}] /\ tela' \in [Abas -> Telas \cup {Nulo}]
    BY <2>1, <2>3, <2>4 DEF TypeOK
  <2>6. QED
    BY <1>8, <2>5 DEF TypeOK, Filtra
<1>9. ASSUME NEW u \in Usuarios, Entra(t, u)
      PROVE  TypeOK' /\ UNCHANGED <<linhas, proximo>>
  <2> DEFINE cursos == { l.curso : l \in { r \in linhas : r.prof = u } }
  <2>1. cursos \in SUBSET Cursos
    BY DEF TypeOK, Linhas
  <2>2. papel' = [papel EXCEPT ![s] = IF papel[s] = {} THEN cursos ELSE papel[s]]
    BY <1>9 DEF Entra
  <2>3. papel' \in [Sessoes -> SUBSET Cursos]
    <3> HIDE DEF cursos
    <3> QED BY <1>1, <2>1, <2>2 DEF TypeOK
  <2>4. admin' \in [Sessoes -> BOOLEAN]
    BY <1>1, <1>9 DEF TypeOK, Entra
  <2>5. QED
    BY <1>1, <1>9, <2>3, <2>4 DEF TypeOK, Entra
<1>10. QED
  BY <1>2, <1>3, <1>4, <1>5, <1>6, <1>7, <1>8, <1>9

\* A step keeps the types and changes the table by one row at most.
LEMMA Passo ==
    ASSUME TypeOK, [Next]_vars
    PROVE  TypeOK' /\ PassoDaTabela
<1>1. CASE \E s \in Sessoes : Expira(s)
  BY <1>1, SessaoPasso DEF PassoDaTabela
<1>2. CASE \E t \in Abas :
              \/ (\E u \in Usuarios : Entra(t, u)) \/ Sai(t) \/ AbrePagina(t) \/ SaiDaPagina(t) \/ FechaDialogo(t)
              \/ \E c \in Filtros : Busca(t, c) \/ Cria(t, c)
              \/ \E x \in Textos : Filtra(t, x)
  BY <1>2, AbaPasso DEF PassoDaTabela
<1>3. CASE \E t \in Abas :
              tela[t] # Nulo /\ \E r \in tela[t].grade, c \in Filtros : Exclui(t, r, c)
  BY <1>3, ExcluiPasso
<1>4. CASE \E t \in Abas :
              tela[t] # Nulo /\ \E p \in tela[t].profs, c \in Cursos : Persiste(t, p, c)
  BY <1>4, PersistePasso
<1>5. CASE UNCHANGED vars
  BY <1>5 DEF vars, TypeOK, PassoDaTabela
<1>6. QED
  BY <1>1, <1>2, <1>3, <1>4, <1>5 DEF Next

\* The beans and the tabs hold rows and professors, in any reachable state.
THEOREM Tipos == Spec => []TypeOK
<1>1. Init => TypeOK
  BY CoordenacaoAssumption DEF Init, TypeOK, Usuarios
<1>2. QED
  BY <1>1, Passo, PTL DEF Spec

-----------------------------------------------------------------------------
(* The table                                                                 *)

\* Ids are not given twice, and a pair of professor and course has one row:
\* the order of the grid is total.
TabelaInv ==
    /\ \A l \in linhas : l.id < proximo
    /\ \A k, l \in linhas : k.id = l.id => k = l
    /\ \A k, l \in linhas : k.prof = l.prof /\ k.curso = l.curso => k = l

LEMMA TabelaPasso ==
    ASSUME TypeOK, TabelaInv, PassoDaTabela
    PROVE  TabelaInv'
<1>1. \A l \in linhas : l.id \in Int /\ proximo \in Int
  BY CoordenacaoAssumption DEF TypeOK, Linhas, Ids
<1>2. ASSUME NEW p \in Professores, NEW c \in Cursos, ~Repetida(p, c),
             linhas' = linhas \cup {[id |-> proximo, curso |-> c, prof |-> p]},
             proximo' = proximo + 1, proximo \in Ids
      PROVE  TabelaInv'
  <2> DEFINE x == [id |-> proximo, curso |-> c, prof |-> p]
  <2>1. proximo \in Int /\ x.id = proximo /\ x.curso = c /\ x.prof = p
    BY <1>2 DEF Ids
  <2>2. \A l \in linhas' : l.id < proximo'
    BY <1>1, <1>2, <2>1 DEF TabelaInv
  <2>3. \A k, l \in linhas' : k.id = l.id => k = l
    BY <1>1, <1>2, <2>1 DEF TabelaInv
  <2>4. \A k, l \in linhas' : k.prof = l.prof /\ k.curso = l.curso => k = l
    BY <1>2, <2>1 DEF TabelaInv, Repetida
  <2>5. QED
    BY <2>2, <2>3, <2>4 DEF TabelaInv
<1>3. CASE Retira
  BY <1>3 DEF Retira, TabelaInv
<1>4. CASE GastaId
  BY <1>1, <1>4 DEF GastaId, TabelaInv
<1>5. CASE UNCHANGED <<linhas, proximo>>
  BY <1>5 DEF TabelaInv
<1>6. QED
  BY <1>2, <1>3, <1>4, <1>5 DEF PassoDaTabela, Inclui

\* The row of L with an id: LinhaDe for any set of rows.
LinhaEm(L, i) == IF \E l \in L : l.id = i THEN CHOOSE l \in L : l.id = i ELSE Nulo

LEMMA LinhaUnica ==
    ASSUME NEW L, NEW l \in L, \A k \in L : k.id = l.id => k = l
    PROVE  LinhaEm(L, l.id) = l
BY DEF LinhaEm

LEMMA LinhaNenhuma ==
    ASSUME NEW L, NEW i, \A l \in L : l.id # i
    PROVE  LinhaEm(L, i) = Nulo
BY DEF LinhaEm

\* Two sets of rows without repeated ids that have the same rows of the id i
\* have the same row there.
LEMMA LinhaIgual ==
    ASSUME NEW L, NEW M, NEW i,
           \A k, l \in L : k.id = l.id => k = l,
           \A k, l \in M : k.id = l.id => k = l,
           \A l : l.id = i => (l \in L <=> l \in M)
    PROVE  LinhaEm(L, i) = LinhaEm(M, i)
<1>1. CASE \E l \in L : l.id = i
  <2>1. PICK l \in L : l.id = i
    BY <1>1
  <2>2. LinhaEm(L, i) = l
    BY <2>1, LinhaUnica
  <2>3. l \in M /\ LinhaEm(M, i) = l
    BY <2>1, LinhaUnica
  <2>4. QED
    BY <2>2, <2>3
<1>2. CASE \A l \in L : l.id # i
  <2>1. LinhaEm(L, i) = Nulo
    BY <1>2, LinhaNenhuma
  <2>2. \A l \in M : l.id # i
    BY <1>2
  <2>3. LinhaEm(M, i) = Nulo
    BY <2>2, LinhaNenhuma
  <2>4. QED
    BY <2>1, <2>3
<1>3. QED
  BY <1>1, <1>2

\* The table implements Cadastro: ids are given out once, one request writes
\* one row, and a removed coordination does not come back, whatever the
\* sessions, the tabs and the failures (persist and delete of the bean).
THEOREM TabelaECadastro == Spec => ImplementaCadastro
<1> DEFINE Reg(L) == [i \in Ids |-> LinhaEm(L, i)]
<1>1. Init => Cad!CadastroInit
  <2>1. SUFFICES ASSUME Init PROVE Cad!CadastroInit
    OBVIOUS
  <2>2. linhas = {} /\ proximo = 1
    BY <2>1 DEF Init
  <2>3. \A i \in Ids : LinhaEm(linhas, i) = Nulo
    BY <2>2, LinhaNenhuma
  <2>4. [i \in Ids |-> LinhaDe(i)] = [i \in Ids |-> Nulo]
    BY <2>3 DEF LinhaDe, LinhaEm
  <2>5. QED
    BY <2>2, <2>4 DEF Cad!CadastroInit, Cad!Chaves, Ids
<1>2. ASSUME TypeOK, TabelaInv, TabelaInv', [Next]_vars
      PROVE  [Cad!CadastroNext]_(Cad!cadastroVars)
  <2> DEFINE R == Reg(linhas)
             S == Reg(linhas')
  <2>1. PassoDaTabela /\ TypeOK'
    BY <1>2, Passo
  <2>2. /\ R = [i \in Ids |-> LinhaDe(i)]
        /\ S = [i \in Ids |-> LinhaDe(i)]'
    BY DEF LinhaDe, LinhaEm
  <2>3. /\ \A l \in linhas : l.id \in Ids /\ l \in Linhas
        /\ \A l \in linhas' : l.id \in Ids /\ l \in Linhas
    BY <1>2, <2>1 DEF TypeOK, Linhas
  <2>4. ASSUME NEW p \in Professores, NEW c \in Cursos, proximo \in Ids,
               linhas' = linhas \cup {[id |-> proximo, curso |-> c, prof |-> p]},
               proximo' = proximo + 1
        PROVE  Cad!CadastroNext
    <3> DEFINE x == [id |-> proximo, curso |-> c, prof |-> p]
    <3>1. x \in Linhas /\ x \in linhas' /\ x.id = proximo
      BY <2>4 DEF Linhas
    <3>2. LinhaEm(linhas', proximo) = x
      BY <1>2, <3>1, LinhaUnica DEF TabelaInv
    <3>3. ASSUME NEW i \in Ids, i # proximo
          PROVE  LinhaEm(linhas', i) = LinhaEm(linhas, i)
      <4>1. \A l : l.id = i => (l \in linhas' <=> l \in linhas)
        BY <2>4, <3>1, <3>3
      <4>2. /\ \A k, l \in linhas : k.id = l.id => k = l
            /\ \A k, l \in linhas' : k.id = l.id => k = l
        BY <1>2 DEF TabelaInv
      <4>3. QED
        BY <4>1, <4>2, LinhaIgual
    <3>4. S = [R EXCEPT ![proximo] = x]
      BY <3>2, <3>3
    <3>5. Cad!Insere(x)
      BY <2>2, <2>4, <3>4 DEF Cad!Insere, Cad!Chaves, Ids
    <3>6. QED
      BY <3>1, <3>5 DEF Cad!CadastroNext
  <2>5. ASSUME NEW x \in linhas, linhas' = linhas \ {x}, UNCHANGED proximo
        PROVE  Cad!CadastroNext
    <3>1. x.id \in Ids /\ x \in Linhas /\ x # Nulo
      BY <2>3, CoordenacaoAssumption
    <3>2. LinhaEm(linhas, x.id) = x
      BY <1>2, LinhaUnica DEF TabelaInv
    <3>3. \A l \in linhas' : l.id # x.id
      BY <1>2, <2>5 DEF TabelaInv
    <3>4. LinhaEm(linhas', x.id) = Nulo
      BY <3>3, LinhaNenhuma
    <3>5. ASSUME NEW i \in Ids, i # x.id
          PROVE  LinhaEm(linhas', i) = LinhaEm(linhas, i)
      <4>1. \A l : l.id = i => (l \in linhas' <=> l \in linhas)
        BY <2>5, <3>5
      <4>2. /\ \A k, l \in linhas : k.id = l.id => k = l
            /\ \A k, l \in linhas' : k.id = l.id => k = l
        BY <1>2 DEF TabelaInv
      <4>3. QED
        BY <4>1, <4>2, LinhaIgual
    <3>6. S = [R EXCEPT ![x.id] = Nulo] /\ R[x.id] # Nulo
      BY <3>1, <3>2, <3>4, <3>5
    <3>7. Cad!Remove(x.id)
      BY <2>2, <2>5, <3>6 DEF Cad!Remove
    <3>8. QED
      BY <3>1, <3>7 DEF Cad!CadastroNext, Cad!Chaves, Ids
  <2>6. CASE GastaId
    <3>1. S = R /\ proximo \in Ids /\ proximo' = proximo + 1
      BY <2>6 DEF GastaId
    <3>2. Cad!Descarta
      BY <2>2, <3>1 DEF Cad!Descarta, Cad!Chaves, Ids
    <3>3. QED
      BY <3>2 DEF Cad!CadastroNext
  <2>7. CASE UNCHANGED <<linhas, proximo>>
    <3>1. S = R /\ proximo' = proximo
      BY <2>7
    <3>2. QED
      BY <2>2, <3>1 DEF Cad!cadastroVars
  <2>8. QED
    BY <2>1, <2>4, <2>5, <2>6, <2>7 DEF PassoDaTabela, Inclui, Retira
<1>3. Init => TabelaInv
  BY DEF Init, TabelaInv
<1>4. ASSUME TypeOK, TabelaInv, [Next]_vars
      PROVE  TabelaInv'
  BY <1>4, Passo, TabelaPasso
<1>5. QED
  BY <1>1, <1>2, <1>3, <1>4, Tipos, PTL DEF Spec, ImplementaCadastro, Cad!CadastroSpec

-----------------------------------------------------------------------------
(* The professor of the button                                               *)

UmaAbaPorSessao == \A t, u \in Abas : SessaoDe[t] = SessaoDe[u] => t = u

\* An open dialog shows the professors of the bean of its session.
DialogoEmDia(t) ==
    tela[t] # Nulo /\ tela[t].aberto =>
        bean[SessaoDe[t]] # Nulo /\ bean[SessaoDe[t]].profs = tela[t].profs

DialogoInv == \A t \in Abas : DialogoEmDia(t)

\* Two parts of a finite set, one inside the other, with as many elements.
LEMMA ParteIgual ==
    ASSUME NEW A, NEW B, IsFiniteSet(A), IsFiniteSet(B),
           A \subseteq B \/ B \subseteq A, Cardinality(A) = Cardinality(B)
    PROVE  A = B
<1>1. ASSUME NEW S, IsFiniteSet(S), NEW T \in SUBSET S, T # S
      PROVE  Cardinality(T) # Cardinality(S)
  BY <1>1, FS_Subset
<1>2. QED
  BY <1>1

\* In a finite set of numbers, a position is of one number.
LEMMA PosicaoUnica ==
    ASSUME NEW L \in SUBSET Professores, NEW p \in L, NEW q \in ProfNaPosicaoDe(p, L, L)
    PROVE  q = p
<1> DEFINE Menores(x) == { k \in L : k < x }
<1>1. IsFiniteSet(L) /\ \A k \in L : k \in Int
  <2>1. Professores \subseteq Nat /\ IsFiniteSet(Professores)
    BY CoordenacaoAssumption
  <2>2. IsFiniteSet(L)
    BY <2>1, FS_Subset
  <2>3. QED
    BY <2>1, <2>2
<1>2. \A x \in L : IsFiniteSet(Menores(x))
  <2>1. \A x \in L : Menores(x) \subseteq L
    OBVIOUS
  <2> HIDE DEF Menores
  <2>2. QED
    BY <1>1, <2>1, FS_Subset
<1>3. q \in L /\ Cardinality(Menores(q)) = Cardinality(Menores(p))
  BY DEF ProfNaPosicaoDe
<1>4. Menores(q) \subseteq Menores(p) \/ Menores(p) \subseteq Menores(q)
  <2>1. ASSUME NEW x \in L, NEW y \in L, x <= y PROVE \A k \in L : k < x => k < y
    BY <1>1, <2>1
  <2>2. q <= p \/ p <= q
    BY <1>1, <1>3
  <2>3. QED
    BY <1>3, <2>1, <2>2
<1>5. Menores(q) = Menores(p)
  <2> HIDE DEF Menores
  <2>1. QED
    BY <1>2, <1>3, <1>4, ParteIgual
<1>6. q \notin Menores(p) /\ p \notin Menores(q)
  BY <1>1, <1>3, <1>5
<1>7. QED
  BY <1>1, <1>3, <1>6

\* A step of the tab t alone, on the bean of its session.
LEMMA SoDaAba ==
    ASSUME TypeOK, DialogoInv, UmaAbaPorSessao, NEW t \in Abas,
           NEW x, bean' = [bean EXCEPT ![SessaoDe[t]] = x],
           DialogoEmDia(t)',
           \A u \in Abas \ {t} : tela'[u] = tela[u]
    PROVE  DialogoInv'
<1>1. \A u \in Abas \ {t} : bean'[SessaoDe[u]] = bean[SessaoDe[u]]
  BY CoordenacaoAssumption DEF TypeOK, UmaAbaPorSessao
<1>2. QED
  BY <1>1 DEF DialogoInv, DialogoEmDia

LEMMA AbaDialogo ==
    ASSUME TypeOK, DialogoInv, UmaAbaPorSessao, NEW t \in Abas,
           \/ (\E u \in Usuarios : Entra(t, u)) \/ Sai(t) \/ AbrePagina(t) \/ SaiDaPagina(t) \/ FechaDialogo(t)
           \/ \E c \in Filtros : Busca(t, c) \/ Cria(t, c)
           \/ \E x \in Textos : Filtra(t, x)
    PROVE  DialogoInv'
<1> DEFINE s == SessaoDe[t]
<1>1. s \in Sessoes /\ Bean(s) \in Beans /\ Bean(s) # Nulo
  BY CoordenacaoAssumption, BeanTipo
<1>2. CASE (\E u \in Usuarios : Entra(t, u)) \/ Sai(t)
  BY <1>2 DEF Entra, Sai, TypeOK, DialogoInv, DialogoEmDia
<1>3. CASE AbrePagina(t)
  <2>1. tela' = [tela EXCEPT ![t] = [grade |-> linhas, profs |-> {}, aberto |-> FALSE]]
    BY <1>3 DEF AbrePagina
  <2>2. DialogoEmDia(t)' /\ \A u \in Abas \ {t} : tela'[u] = tela[u]
    BY <2>1 DEF TypeOK, DialogoEmDia
  <2>3. bean' = [bean EXCEPT ![s] = NovoBean]
    BY <1>3 DEF AbrePagina
  <2>4. QED
    BY <2>2, <2>3, SoDaAba
<1>4. CASE SaiDaPagina(t)
  <2>1. DialogoEmDia(t)' /\ \A u \in Abas \ {t} : tela'[u] = tela[u]
    BY <1>4 DEF SaiDaPagina, TypeOK, DialogoEmDia
  <2>2. bean' = [bean EXCEPT ![s] = Nulo]
    BY <1>4 DEF SaiDaPagina
  <2>3. QED
    BY <2>1, <2>2, SoDaAba
<1>5. CASE FechaDialogo(t)
  <2>1. tela[t] \in Telas /\ tela' = [tela EXCEPT ![t] = [tela[t] EXCEPT !.aberto = FALSE]]
    BY <1>5 DEF TypeOK, FechaDialogo
  <2>2. ~[tela[t] EXCEPT !.aberto = FALSE].aberto
    BY <2>1 DEF Telas
  <2>3. /\ ~tela'[t].aberto
        /\ \A u \in Abas \ {t} : tela'[u] = tela[u]
    BY <2>1, <2>2 DEF TypeOK
  <2>4. bean' = bean
    BY <1>5 DEF FechaDialogo
  <2>5. QED
    BY <2>3, <2>4 DEF DialogoInv, DialogoEmDia
<1>6. ASSUME NEW c \in Filtros, Busca(t, c)
      PROVE  DialogoInv'
  <2>1. PICK L \in {Recupera(c, linhas), {}} :
           bean' = [bean EXCEPT ![s] = [Bean(s) EXCEPT !.filtro = c, !.lista = L]]
    BY <1>6 DEF Busca
  <2>2. ~tela[t].aberto /\ tela' = tela
    BY <1>6 DEF Busca, NaPagina
  <2>3. DialogoEmDia(t)' /\ \A u \in Abas \ {t} : tela'[u] = tela[u]
    BY <2>2 DEF DialogoEmDia
  <2>4. QED
    BY <2>1, <2>3, SoDaAba
<1>7. ASSUME NEW c \in Filtros, Cria(t, c)
      PROVE  DialogoInv'
  <2> DEFINE b == [Bean(s) EXCEPT !.filtro = c, !.profs = Professores, !.opcoes = TRUE]
             q == [tela[t] EXCEPT !.profs = Professores, !.aberto = TRUE]
  <2>1. tela[t] \in Telas
    BY <1>7 DEF TypeOK, Cria, NaPagina
  <2>2. b \in Beans /\ b.profs = Professores /\ q.profs = Professores
    BY <1>1, <2>1 DEF Beans, Telas
  <2>3. bean' = [bean EXCEPT ![s] = b] /\ tela' = [tela EXCEPT ![t] = q]
    BY <1>7, <2>1 DEF Cria, TypeOK, Telas
  <2>4. bean'[s] = b /\ tela'[t] = q /\ \A u \in Abas \ {t} : tela'[u] = tela[u]
    BY <1>1, <2>3 DEF TypeOK
  <2>5. DialogoEmDia(t)'
    BY <2>2, <2>4, CoordenacaoAssumption DEF DialogoEmDia
  <2>6. QED
    BY <2>3, <2>4, <2>5, SoDaAba
<1>8. ASSUME NEW x \in Textos, Filtra(t, x)
      PROVE  DialogoInv'
  <2> DEFINE b == [Bean(s) EXCEPT !.profs = Casa[x]]
             q == [tela[t] EXCEPT !.profs = Casa[x]]
  <2>1. tela[t] \in Telas
    BY <1>8 DEF TypeOK, Filtra, NoDialogo
  <2>2. b \in Beans /\ b.profs = Casa[x] /\ q.profs = Casa[x]
    BY <1>1, <2>1, CoordenacaoAssumption DEF Beans, Telas
  <2>3. bean' = [bean EXCEPT ![s] = b] /\ tela' = [tela EXCEPT ![t] = q]
    BY <1>8 DEF Filtra
  <2>4. bean'[s] = b /\ tela'[t] = q /\ \A u \in Abas \ {t} : tela'[u] = tela[u]
    BY <1>1, <2>3 DEF TypeOK
  <2>5. DialogoEmDia(t)'
    BY <2>2, <2>4, CoordenacaoAssumption DEF DialogoEmDia
  <2>6. QED
    BY <2>3, <2>4, <2>5, SoDaAba
<1>9. QED
  BY <1>2, <1>3, <1>4, <1>5, <1>6, <1>7, <1>8

LEMMA PassoDialogo ==
    ASSUME TypeOK, DialogoInv, UmaAbaPorSessao, [Next]_vars
    PROVE  DialogoInv'
<1>1. ASSUME NEW s \in Sessoes, Expira(s)
      PROVE  DialogoInv'
  BY <1>1, CoordenacaoAssumption DEF Expira, TypeOK, DialogoInv, DialogoEmDia
<1>2. CASE \E t \in Abas :
              \/ (\E u \in Usuarios : Entra(t, u)) \/ Sai(t) \/ AbrePagina(t) \/ SaiDaPagina(t) \/ FechaDialogo(t)
              \/ \E c \in Filtros : Busca(t, c) \/ Cria(t, c)
              \/ \E x \in Textos : Filtra(t, x)
  BY <1>2, AbaDialogo
<1>3. ASSUME NEW t \in Abas, tela[t] # Nulo,
             NEW r \in tela[t].grade, NEW c \in Filtros, Exclui(t, r, c)
      PROVE  DialogoInv'
  <2>1. /\ TrocaBean(SessaoDe[t], Bean(SessaoDe[t]))
        /\ ~tela'[t].aberto
        /\ \A u \in Abas \ {t} : tela'[u] = tela[u]
    BY <1>3, ExcluiPasso
  <2>2. PICK y \in Beans : bean' = [bean EXCEPT ![SessaoDe[t]] = y]
    BY <2>1 DEF TrocaBean
  <2>3. QED
    BY <2>1, <2>2, SoDaAba DEF DialogoEmDia
<1>4. ASSUME NEW t \in Abas, tela[t] # Nulo,
             NEW p \in tela[t].profs, NEW c \in Cursos, Persiste(t, p, c)
      PROVE  DialogoInv'
  <2>1. /\ TrocaBean(SessaoDe[t], Bean(SessaoDe[t]))
        /\ tela'[t].profs = bean'[SessaoDe[t]].profs
        /\ \A u \in Abas \ {t} : tela'[u] = tela[u]
    BY <1>4, PersistePasso
  <2>2. PICK y \in Beans : bean' = [bean EXCEPT ![SessaoDe[t]] = y]
    BY <2>1 DEF TrocaBean
  <2>3. bean'[SessaoDe[t]] # Nulo
    BY <2>2, CoordenacaoAssumption DEF TypeOK
  <2>4. QED
    BY <2>1, <2>2, <2>3, SoDaAba DEF DialogoEmDia
<1>5. CASE UNCHANGED vars
  BY <1>5 DEF vars, DialogoInv, DialogoEmDia
<1>6. QED
  BY <1>1, <1>2, <1>3, <1>4, <1>5 DEF Next

\* When no two tabs share a session, whatever was typed in the filter of the
\* dialog a coordination is created for the professor whose button was
\* pressed, in the course of the form (filterProfessores and persist).
THEOREM PersisteDoBotao == UmaAbaPorSessao => (Spec => PersisteOEscolhido)
<1> SUFFICES ASSUME UmaAbaPorSessao
             PROVE  Spec => PersisteOEscolhido
  OBVIOUS
<1> DEFINE DoBotao ==
        \A l \in linhas' \ linhas : \A t \in Abas, p \in Professores, c \in Cursos :
            tela[t] # Nulo /\ Persiste(t, p, c) => l.prof = p /\ l.curso = c
<1>1. Init => DialogoInv
  BY DEF Init, DialogoInv, DialogoEmDia
<1>2. ASSUME TypeOK, DialogoInv
      PROVE  DoBotao
  <2> SUFFICES ASSUME NEW l \in linhas' \ linhas, NEW t \in Abas,
                      NEW p \in Professores, NEW c \in Cursos,
                      tela[t] # Nulo, Persiste(t, p, c)
               PROVE  l.prof = p /\ l.curso = c
    OBVIOUS
  <2> DEFINE s == SessaoDe[t]
             b == Bean(s)
  <2>1. s \in Sessoes /\ b \in Beans
    BY <1>2, CoordenacaoAssumption, BeanTipo
  <2>2. tela[t].aberto /\ p \in tela[t].profs
    BY DEF Persiste, NoDialogo
  <2>3. b.profs = tela[t].profs /\ b.profs \in SUBSET Professores
    BY <1>2, <2>1, <2>2 DEF DialogoInv, DialogoEmDia, Bean, Beans
  <2>4. linhas' # linhas
    OBVIOUS
  <2>5. PICK q \in ProfNaPosicaoDe(p, tela[t].profs, b.profs) : Persist(s, b, q, c)
    BY <2>4 DEF Persiste
  <2>6. q = p
    BY <2>2, <2>3, <2>5, PosicaoUnica
  <2>7. Persist(s, b, p, c)
    BY <2>5, <2>6
  <2>8. QED
    BY <1>2, <2>1, <2>7, PersistPasso
<1>3. ASSUME TypeOK, DialogoInv, [Next]_vars
      PROVE  DialogoInv'
  BY <1>3, PassoDialogo
<1>4. ASSUME TypeOK, DialogoInv
      PROVE  [DoBotao]_vars
  BY <1>2, <1>4
<1>5. QED
  BY <1>1, <1>3, <1>4, Tipos, PTL DEF Spec, PersisteOEscolhido

-----------------------------------------------------------------------------
(* The row of the button                                                     *)

\* compareTo() orders the list: no two elements are of the same pair.
Ordenada(L) ==
    /\ IsFiniteSet(L)
    /\ \A k, l \in L : k.prof = l.prof /\ k.curso = l.curso => k = l

\* The table is a list in order, and so is what every session read of it.
ListasInv ==
    /\ Ordenada(linhas)
    /\ \A s \in Sessoes : bean[s] # Nulo => Ordenada(bean[s].lista)

LEMMA ParteOrdenada ==
    ASSUME NEW L, Ordenada(L), NEW M \in SUBSET L
    PROVE  Ordenada(M)
BY FS_Subset DEF Ordenada

\* In a list in order, a position is of one row.
LEMMA LinhaDaPosicao ==
    ASSUME NEW L \in SUBSET Linhas, Ordenada(L), NEW r \in L, NEW x \in NaPosicaoDe(r, L, L)
    PROVE  x = r
<1>1. \A k \in L : k.curso \in Int /\ k.prof \in Int
  <2>1. \A c \in Cursos \cup Professores : c \in Int
    BY CoordenacaoAssumption
  <2>2. \A k \in Linhas : k.curso \in Cursos /\ k.prof \in Professores
    BY DEF Linhas
  <2>3. QED
    BY <2>1, <2>2
<1> DEFINE Primeiros(y) == { k \in L : Antes(k, y) }
<1>2. \A y \in L : IsFiniteSet(Primeiros(y))
  <2>1. \A y \in L : Primeiros(y) \subseteq L
    OBVIOUS
  <2> HIDE DEF Primeiros
  <2>2. QED
    BY <2>1, FS_Subset DEF Ordenada
<1>3. x \in L /\ Cardinality(Primeiros(x)) = Cardinality(Primeiros(r))
  BY DEF NaPosicaoDe
<1>4. Primeiros(x) \subseteq Primeiros(r) \/ Primeiros(r) \subseteq Primeiros(x)
  <2>1. ASSUME NEW y \in L, NEW z \in L, ~Antes(z, y)
        PROVE  \A k \in L : Antes(k, y) => Antes(k, z)
    BY <1>1, <2>1 DEF Antes
  <2>2. ~Antes(r, x) \/ ~Antes(x, r)
    BY <1>1, <1>3 DEF Antes
  <2>3. QED
    BY <1>3, <2>1, <2>2
<1>5. Primeiros(x) = Primeiros(r)
  <2> HIDE DEF Primeiros
  <2>1. QED
    BY <1>2, <1>3, <1>4, ParteIgual
<1>6. ~Antes(x, x) /\ ~Antes(r, r)
  BY <1>1, <1>3 DEF Antes
<1>7. ~Antes(x, r) /\ ~Antes(r, x)
  BY <1>3, <1>5, <1>6
<1>8. x.curso = r.curso /\ x.prof = r.prof
  BY <1>1, <1>3, <1>7 DEF Antes
<1>9. QED
  BY <1>3, <1>8 DEF Ordenada

\* What a request does to the list of the bean of a session: it stays, or is
\* read again from the table.
TrocaLista(s, b) ==
    \E y \in Beans :
        /\ bean' = [bean EXCEPT ![s] = y]
        /\ y.lista = b.lista \/ y.lista \subseteq linhas'

LEMMA RelidaLista ==
    ASSUME NEW s \in Sessoes, NEW b \in Beans, linhas' \subseteq Linhas, Relida(s, b)
    PROVE  TrocaLista(s, b)
<1>1. PICK L \in {Recupera(b.filtro, linhas'), {}} : bean' = [bean EXCEPT ![s] = [b EXCEPT !.lista = L]]
  BY DEF Relida
<1>2. L \subseteq linhas' /\ L \in SUBSET Linhas
  BY DEF Recupera
<1>3. [b EXCEPT !.lista = L] \in Beans /\ [b EXCEPT !.lista = L].lista = L
  BY <1>2 DEF Beans
<1>4. QED
  BY <1>1, <1>2, <1>3 DEF TrocaLista

LEMMA ExcluiLista ==
    ASSUME TypeOK, NEW t \in Abas, tela[t] # Nulo,
           NEW r \in tela[t].grade, NEW c \in Filtros, Exclui(t, r, c)
    PROVE  TrocaLista(SessaoDe[t], Bean(SessaoDe[t]))
<1> DEFINE s == SessaoDe[t]
           b == [Bean(s) EXCEPT !.filtro = c]
<1>1. s \in Sessoes /\ Bean(s) \in Beans
  BY CoordenacaoAssumption, BeanTipo
<1>2. b \in Beans /\ b.lista = Bean(s).lista
  BY <1>1 DEF Beans
<1>3. bean' = [bean EXCEPT ![s] = b] \/ Relida(s, b)
  BY DEF Exclui, Delete
<1>4. linhas' \subseteq Linhas
  BY ExcluiPasso DEF TypeOK
<1>5. TrocaLista(s, b)
  BY <1>1, <1>2, <1>3, <1>4, RelidaLista DEF TrocaLista
<1>6. QED
  BY <1>2, <1>5 DEF TrocaLista

LEMMA PersisteLista ==
    ASSUME TypeOK, NEW t \in Abas, tela[t] # Nulo,
           NEW p \in tela[t].profs, NEW c \in Cursos, Persiste(t, p, c)
    PROVE  TrocaLista(SessaoDe[t], Bean(SessaoDe[t]))
<1> DEFINE s == SessaoDe[t]
           b == Bean(s)
<1>1. s \in Sessoes /\ b \in Beans
  BY CoordenacaoAssumption, BeanTipo
<1>2. bean' = [bean EXCEPT ![s] = b] \/ Relida(s, b)
  BY DEF Persiste, Persist
<1>3. linhas' \subseteq Linhas
  BY PersistePasso DEF TypeOK
<1>4. QED
  BY <1>1, <1>2, <1>3, RelidaLista DEF TrocaLista

\* The other requests, which leave the table alone.
LEMMA AbaLista ==
    ASSUME TypeOK, NEW t \in Abas,
           \/ (\E u \in Usuarios : Entra(t, u)) \/ Sai(t) \/ AbrePagina(t) \/ SaiDaPagina(t) \/ FechaDialogo(t)
           \/ \E c \in Filtros : Busca(t, c) \/ Cria(t, c)
           \/ \E x \in Textos : Filtra(t, x)
    PROVE  \/ TrocaLista(SessaoDe[t], Bean(SessaoDe[t]))
           \/ bean' = [bean EXCEPT ![SessaoDe[t]] = Nulo]
           \/ bean' = bean
<1> DEFINE s == SessaoDe[t]
<1>1. s \in Sessoes /\ Bean(s) \in Beans /\ NovoBean \in Beans
  BY CoordenacaoAssumption, BeanTipo DEF TypeOK, NovoBean, Beans, Filtros
<1>2. linhas' = linhas
  BY AbaPasso
<1>3. CASE (\E u \in Usuarios : Entra(t, u)) \/ Sai(t) \/ SaiDaPagina(t) \/ FechaDialogo(t)
  BY <1>3 DEF Entra, Sai, SaiDaPagina, FechaDialogo
<1>4. CASE AbrePagina(t)
  <2>1. NovoBean.lista = linhas
    BY DEF NovoBean
  <2>2. QED
    BY <1>1, <1>2, <1>4, <2>1 DEF AbrePagina, TrocaLista
<1>5. ASSUME NEW c \in Filtros, Busca(t, c)
      PROVE  TrocaLista(s, Bean(s))
  <2>1. PICK L \in {Recupera(c, linhas), {}} :
           bean' = [bean EXCEPT ![s] = [Bean(s) EXCEPT !.filtro = c, !.lista = L]]
    BY <1>5 DEF Busca
  <2>2. L \subseteq linhas' /\ L \in SUBSET Linhas
    BY <1>2 DEF Recupera, TypeOK
  <2>3. /\ [Bean(s) EXCEPT !.filtro = c, !.lista = L] \in Beans
        /\ [Bean(s) EXCEPT !.filtro = c, !.lista = L].lista = L
    BY <1>1, <2>2 DEF Beans
  <2>4. QED
    BY <2>1, <2>2, <2>3 DEF TrocaLista
<1>6. ASSUME NEW c \in Filtros, Cria(t, c)
      PROVE  TrocaLista(s, Bean(s))
  <2> DEFINE b == [Bean(s) EXCEPT !.filtro = c, !.profs = Professores, !.opcoes = TRUE]
  <2>1. b \in Beans /\ b.lista = Bean(s).lista
    BY <1>1 DEF Beans
  <2>2. QED
    BY <1>6, <2>1 DEF Cria, TrocaLista
<1>7. ASSUME NEW x \in Textos, Filtra(t, x)
      PROVE  TrocaLista(s, Bean(s))
  <2> DEFINE b == [Bean(s) EXCEPT !.profs = Casa[x]]
  <2>1. b \in Beans /\ b.lista = Bean(s).lista
    BY <1>1, CoordenacaoAssumption DEF Beans
  <2>2. QED
    BY <1>7, <2>1 DEF Filtra, TrocaLista
<1>8. QED
  BY <1>3, <1>4, <1>5, <1>6, <1>7

LEMMA TrocaOrdenada ==
    ASSUME TypeOK, ListasInv, Ordenada(linhas'), NEW s \in Sessoes, TrocaLista(s, Bean(s))
    PROVE  ListasInv'
<1>1. PICK y \in Beans :
         /\ bean' = [bean EXCEPT ![s] = y]
         /\ y.lista = Bean(s).lista \/ y.lista \subseteq linhas'
  BY DEF TrocaLista
<1>2. Ordenada(Bean(s).lista)
  BY DEF ListasInv, Bean, NovoBean
<1>3. Ordenada(y.lista)
  BY <1>1, <1>2, ParteOrdenada
<1>4. bean'[s] = y /\ \A z \in Sessoes \ {s} : bean'[z] = bean[z]
  BY <1>1 DEF TypeOK
<1>5. QED
  BY <1>3, <1>4 DEF ListasInv

\* The table stays a list in order when a row comes or goes.
LEMMA TabelaOrdenada ==
    ASSUME TabelaInv', PassoDaTabela, Ordenada(linhas)
    PROVE  Ordenada(linhas')
<1>1. \A k, l \in linhas' : k.prof = l.prof /\ k.curso = l.curso => k = l
  BY DEF TabelaInv
<1>2. IsFiniteSet(linhas')
  <2>1. CASE Inclui
    BY <2>1, FS_AddElement DEF Inclui, Ordenada
  <2>2. CASE linhas' \subseteq linhas
    BY <2>2, FS_Subset DEF Ordenada
  <2>3. QED
    BY <2>1, <2>2 DEF PassoDaTabela, Retira, GastaId
<1>3. QED
  BY <1>1, <1>2 DEF Ordenada

LEMMA PassoListas ==
    ASSUME TypeOK, TabelaInv', ListasInv, [Next]_vars
    PROVE  ListasInv'
<1>1. Ordenada(linhas')
  BY Passo, TabelaOrdenada DEF ListasInv
<1>2. ASSUME NEW s \in Sessoes, Expira(s)
      PROVE  ListasInv'
  BY <1>1, <1>2 DEF Expira, TypeOK, ListasInv
<1>3. ASSUME NEW t \in Abas,
             \/ TrocaLista(SessaoDe[t], Bean(SessaoDe[t]))
             \/ bean' = [bean EXCEPT ![SessaoDe[t]] = Nulo]
             \/ bean' = bean
      PROVE  ListasInv'
  <2>1. SessaoDe[t] \in Sessoes
    BY CoordenacaoAssumption
  <2>2. CASE TrocaLista(SessaoDe[t], Bean(SessaoDe[t]))
    BY <1>1, <2>1, <2>2, TrocaOrdenada
  <2>3. CASE bean' = [bean EXCEPT ![SessaoDe[t]] = Nulo] \/ bean' = bean
    BY <1>1, <2>1, <2>3 DEF TypeOK, ListasInv
  <2>4. QED
    BY <1>3, <2>2, <2>3
<1>4. CASE \E t \in Abas :
              \/ (\E u \in Usuarios : Entra(t, u)) \/ Sai(t) \/ AbrePagina(t) \/ SaiDaPagina(t) \/ FechaDialogo(t)
              \/ \E c \in Filtros : Busca(t, c) \/ Cria(t, c)
              \/ \E x \in Textos : Filtra(t, x)
  BY <1>3, <1>4, AbaLista
<1>5. CASE \E t \in Abas :
              \/ tela[t] # Nulo /\ \E r \in tela[t].grade, c \in Filtros : Exclui(t, r, c)
              \/ tela[t] # Nulo /\ \E p \in tela[t].profs, c \in Cursos : Persiste(t, p, c)
  BY <1>3, <1>5, ExcluiLista, PersisteLista
<1>6. CASE UNCHANGED vars
  BY <1>1, <1>6 DEF vars, ListasInv
<1>7. QED
  BY <1>2, <1>4, <1>5, <1>6 DEF Next

\* Whatever the other sessions and the failures did to the table, a button of
\* a grid that is the list of the bean removes its own row or none: the list
\* was read once and sorted by a key no two rows share (delete()).
THEOREM RemoveDoBotao == Spec => RemoveDaGrade
<1> DEFINE DaGrade ==
        \A x \in linhas \ linhas' : \A t \in Abas, r \in Linhas, c \in Filtros :
            tela[t] # Nulo /\ GradeEmDia(t) /\ Exclui(t, r, c) => x = r
<1>1. Init => TabelaInv /\ ListasInv
  BY FS_EmptySet DEF Init, TabelaInv, ListasInv, Ordenada
<1>2. ASSUME TypeOK, ListasInv
      PROVE  DaGrade
  <2> SUFFICES ASSUME NEW x \in linhas \ linhas', NEW t \in Abas,
                      NEW r \in Linhas, NEW c \in Filtros,
                      tela[t] # Nulo, GradeEmDia(t), Exclui(t, r, c)
               PROVE  x = r
    OBVIOUS
  <2> DEFINE s == SessaoDe[t]
             b == [Bean(s) EXCEPT !.filtro = c]
             L == tela[t].grade
  <2>1. s \in Sessoes /\ Bean(s) \in Beans
    BY <1>2, CoordenacaoAssumption, BeanTipo
  <2>2. Bean(s) = bean[s] /\ bean[s] # Nulo /\ L = bean[s].lista
    BY DEF GradeEmDia, Bean
  <2>3. b.lista = L /\ L \in SUBSET Linhas
    BY <2>1, <2>2 DEF Beans
  <2>4. Ordenada(L)
    BY <1>2, <2>1, <2>2 DEF ListasInv
  <2>5. linhas' # linhas /\ r \in L
    BY DEF Exclui
  <2>6. PICK y \in NaPosicaoDe(r, L, b.lista) : Delete(s, b, y)
    BY <2>5 DEF Exclui
  <2>7. y = r
    BY <2>3, <2>4, <2>5, <2>6, LinhaDaPosicao
  <2>8. linhas' = linhas \ {y}
    BY <2>5, <2>6 DEF Delete, Apaga
  <2>9. QED
    BY <2>7, <2>8
<1>3. ASSUME TypeOK, TabelaInv, ListasInv, [Next]_vars
      PROVE  TabelaInv' /\ ListasInv'
  BY <1>3, Passo, TabelaPasso, PassoListas
<1>4. ASSUME TypeOK, ListasInv
      PROVE  [DaGrade]_vars
  BY <1>2, <1>4
<1>5. QED
  BY <1>1, <1>3, <1>4, Tipos, PTL DEF Spec, RemoveDaGrade

-----------------------------------------------------------------------------
(* The grid and the list                                                     *)

\* A request of the tab u alone, on the bean of its session.
SoDe(u) ==
    /\ \E y : bean' = [bean EXCEPT ![SessaoDe[u]] = y]
    /\ \A v \in Abas \ {u} : tela'[v] = tela[v]

\* It draws again what it reads.
LEMMA AbaGrade ==
    ASSUME TypeOK, NEW t \in Abas,
           \/ (\E u \in Usuarios : Entra(t, u)) \/ Sai(t) \/ AbrePagina(t) \/ SaiDaPagina(t) \/ FechaDialogo(t)
           \/ \E c \in Filtros : Busca(t, c) \/ Cria(t, c)
           \/ \E x \in Textos : Filtra(t, x)
    PROVE  /\ SoDe(t)
           /\ GradeEmDia(t) /\ ~(\E c \in Filtros : Busca(t, c)) => GradeEmDia(t)'
<1> DEFINE s == SessaoDe[t]
<1>1. s \in Sessoes /\ Bean(s) \in Beans /\ Bean(s) # Nulo
  BY CoordenacaoAssumption, BeanTipo
<1>2. bean' = bean => \E y : bean' = [bean EXCEPT ![s] = y]
  <2>1. bean = [bean EXCEPT ![s] = bean[s]]
    BY <1>1 DEF TypeOK
  <2>2. QED
    BY <2>1
<1>3. GradeEmDia(t) /\ tela[t] # Nulo => Bean(s) = bean[s] /\ tela[t].grade = bean[s].lista
  BY DEF GradeEmDia, Bean
<1>4. CASE (\E u \in Usuarios : Entra(t, u)) \/ Sai(t) \/ SaiDaPagina(t)
  <2>1. tela' = [tela EXCEPT ![t] = Nulo]
    BY <1>4 DEF Entra, Sai, SaiDaPagina
  <2>2. tela'[t] = Nulo /\ \A v \in Abas \ {t} : tela'[v] = tela[v]
    BY <2>1 DEF TypeOK
  <2>3. \E y : bean' = [bean EXCEPT ![s] = y]
    BY <1>2, <1>4 DEF Entra, Sai, SaiDaPagina
  <2>4. QED
    BY <2>2, <2>3 DEF SoDe, GradeEmDia
<1>5. CASE AbrePagina(t)
  <2> DEFINE q == [grade |-> linhas, profs |-> {}, aberto |-> FALSE]
  <2>1. tela' = [tela EXCEPT ![t] = q] /\ bean' = [bean EXCEPT ![s] = NovoBean]
    BY <1>5 DEF AbrePagina
  <2>2. tela'[t] = q /\ \A v \in Abas \ {t} : tela'[v] = tela[v]
    BY <2>1 DEF TypeOK
  <2>3. bean'[s] = NovoBean /\ q.grade = NovoBean.lista
    BY <1>1, <2>1 DEF TypeOK, NovoBean
  <2>4. NovoBean # Nulo
    <3>1. NovoBean \in Beans
      BY DEF NovoBean, TypeOK, Beans, Filtros
    <3>2. QED
      BY <3>1, CoordenacaoAssumption
  <2>5. GradeEmDia(t)'
    BY <2>2, <2>3, <2>4 DEF GradeEmDia
  <2>6. QED
    BY <2>1, <2>2, <2>5 DEF SoDe
<1>6. CASE FechaDialogo(t)
  <2>1. tela[t] \in Telas /\ tela' = [tela EXCEPT ![t] = [tela[t] EXCEPT !.aberto = FALSE]]
    BY <1>6 DEF TypeOK, FechaDialogo
  <2>2. [tela[t] EXCEPT !.aberto = FALSE].grade = tela[t].grade
    BY <2>1 DEF Telas
  <2>3. /\ tela'[t].grade = tela[t].grade
        /\ \A v \in Abas \ {t} : tela'[v] = tela[v]
    BY <2>1, <2>2 DEF TypeOK
  <2>4. bean' = bean /\ tela[t] # Nulo
    BY <1>6 DEF FechaDialogo
  <2>5. GradeEmDia(t) => GradeEmDia(t)'
    BY <2>3, <2>4 DEF GradeEmDia
  <2>6. QED
    BY <1>2, <2>3, <2>4, <2>5 DEF SoDe
<1>7. CASE \E c \in Filtros : Busca(t, c)
  <2>1. \E y : bean' = [bean EXCEPT ![s] = y]
    BY <1>7 DEF Busca
  <2>2. tela' = tela
    BY <1>7 DEF Busca
  <2>3. QED
    BY <1>7, <2>1, <2>2 DEF SoDe
<1>8. ASSUME NEW c \in Filtros, Cria(t, c)
      PROVE  SoDe(t) /\ (GradeEmDia(t) => GradeEmDia(t)')
  <2> DEFINE b == [Bean(s) EXCEPT !.filtro = c, !.profs = Professores, !.opcoes = TRUE]
             q == [tela[t] EXCEPT !.profs = Professores, !.aberto = TRUE]
  <2>1. tela[t] \in Telas /\ tela[t] # Nulo
    BY <1>8 DEF TypeOK, Cria, NaPagina
  <2>2. b \in Beans /\ b.lista = Bean(s).lista /\ q.grade = tela[t].grade
    BY <1>1, <2>1 DEF Beans, Telas
  <2>3. bean' = [bean EXCEPT ![s] = b] /\ tela' = [tela EXCEPT ![t] = q]
    BY <1>8, <2>1 DEF Cria, TypeOK, Telas
  <2>4. bean'[s] = b /\ tela'[t] = q /\ \A v \in Abas \ {t} : tela'[v] = tela[v]
    BY <1>1, <2>3 DEF TypeOK
  <2>5. GradeEmDia(t) => GradeEmDia(t)'
    BY <1>3, <2>1, <2>2, <2>4, CoordenacaoAssumption DEF GradeEmDia
  <2>6. QED
    BY <2>3, <2>4, <2>5 DEF SoDe
<1>9. ASSUME NEW x \in Textos, Filtra(t, x)
      PROVE  SoDe(t) /\ (GradeEmDia(t) => GradeEmDia(t)')
  <2> DEFINE b == [Bean(s) EXCEPT !.profs = Casa[x]]
             q == [tela[t] EXCEPT !.profs = Casa[x]]
  <2>1. tela[t] \in Telas /\ tela[t] # Nulo
    BY <1>9 DEF TypeOK, Filtra, NoDialogo
  <2>2. b \in Beans /\ b.lista = Bean(s).lista /\ q.grade = tela[t].grade
    BY <1>1, <2>1, CoordenacaoAssumption DEF Beans, Telas
  <2>3. bean' = [bean EXCEPT ![s] = b] /\ tela' = [tela EXCEPT ![t] = q]
    BY <1>9 DEF Filtra
  <2>4. bean'[s] = b /\ tela'[t] = q /\ \A v \in Abas \ {t} : tela'[v] = tela[v]
    BY <1>1, <2>3 DEF TypeOK
  <2>5. GradeEmDia(t) => GradeEmDia(t)'
    BY <1>3, <2>1, <2>2, <2>4, CoordenacaoAssumption DEF GradeEmDia
  <2>6. QED
    BY <2>3, <2>4, <2>5 DEF SoDe
<1>10. QED
  BY <1>4, <1>5, <1>6, <1>7, <1>8, <1>9

\* The two requests that write the table draw the grid again too.
LEMMA EscritaGrade ==
    ASSUME TypeOK, NEW t \in Abas, tela[t] # Nulo,
           \/ \E r \in tela[t].grade, c \in Filtros : Exclui(t, r, c)
           \/ \E p \in tela[t].profs, c \in Cursos : Persiste(t, p, c)
    PROVE  SoDe(t) /\ GradeEmDia(t)'
<1>1. /\ TrocaBean(SessaoDe[t], Bean(SessaoDe[t]))
      /\ tela'[t] # Nulo /\ tela'[t].grade = bean'[SessaoDe[t]].lista
      /\ \A v \in Abas \ {t} : tela'[v] = tela[v]
  BY ExcluiPasso, PersistePasso
<1>2. PICK y \in Beans : bean' = [bean EXCEPT ![SessaoDe[t]] = y]
  BY <1>1 DEF TrocaBean
<1>3. bean'[SessaoDe[t]] # Nulo
  BY <1>2, CoordenacaoAssumption DEF TypeOK
<1>4. QED
  BY <1>1, <1>2, <1>3 DEF SoDe, GradeEmDia

LEMMA GradePasso ==
    ASSUME TypeOK, UmaAbaPorSessao, [Next]_vars, NEW t \in Abas, GradeEmDia(t),
           ~(\E c \in Filtros : Busca(t, c))
    PROVE  GradeEmDia(t)'
<1>1. ASSUME NEW s \in Sessoes, Expira(s)
      PROVE  GradeEmDia(t)'
  BY <1>1, CoordenacaoAssumption DEF Expira, TypeOK, GradeEmDia
<1>2. ASSUME NEW u \in Abas, SoDe(u), u # t
      PROVE  GradeEmDia(t)'
  <2>1. PICK y : bean' = [bean EXCEPT ![SessaoDe[u]] = y]
    BY <1>2 DEF SoDe
  <2>2. SessaoDe[t] \in Sessoes /\ SessaoDe[u] # SessaoDe[t]
    BY <1>2, CoordenacaoAssumption DEF UmaAbaPorSessao
  <2>3. bean'[SessaoDe[t]] = bean[SessaoDe[t]]
    BY <2>1, <2>2 DEF TypeOK
  <2>4. tela'[t] = tela[t]
    BY <1>2 DEF SoDe
  <2>5. QED
    BY <2>3, <2>4 DEF GradeEmDia
<1>3. ASSUME NEW u \in Abas,
             \/ (\E w \in Usuarios : Entra(u, w)) \/ Sai(u) \/ AbrePagina(u) \/ SaiDaPagina(u) \/ FechaDialogo(u)
             \/ \E c \in Filtros : Busca(u, c) \/ Cria(u, c)
             \/ \E x \in Textos : Filtra(u, x)
      PROVE  GradeEmDia(t)'
  BY <1>2, <1>3, AbaGrade
<1>4. ASSUME NEW u \in Abas, tela[u] # Nulo,
             \/ \E r \in tela[u].grade, c \in Filtros : Exclui(u, r, c)
             \/ \E p \in tela[u].profs, c \in Cursos : Persiste(u, p, c)
      PROVE  GradeEmDia(t)'
  BY <1>2, <1>4, EscritaGrade
<1>5. CASE UNCHANGED vars
  BY <1>5 DEF vars, GradeEmDia
<1>6. QED
  BY <1>1, <1>3, <1>4, <1>5 DEF Next

\* When no two tabs share a session the search is the only request after which
\* the grid is not the list: with RemoveDoBotao, a button of the page removes
\* another row than its own only after a search (the update attributes of
\* coordenacoes.xhtml, where that of "Buscar" alone leaves the grid out).
THEOREM GradeSoEnvelheceNaBusca == UmaAbaPorSessao => (Spec => SoABuscaDesatualiza)
<1> SUFFICES ASSUME UmaAbaPorSessao
             PROVE  Spec => SoABuscaDesatualiza
  OBVIOUS
<1> DEFINE SoABusca ==
        \A t \in Abas :
            GradeEmDia(t) /\ ~(\E c \in Filtros : Busca(t, c)) => GradeEmDia(t)'
<1>1. ASSUME TypeOK, [Next]_vars
      PROVE  SoABusca
  BY <1>1, GradePasso
<1>2. ASSUME TypeOK, [Next]_vars
      PROVE  [SoABusca]_vars
  BY <1>1, <1>2
<1>3. QED
  BY <1>2, Tipos, PTL DEF Spec, SoABuscaDesatualiza

=============================================================================
