---------------------------- MODULE Coordenacao -----------------------------
(***************************************************************************)
(* The page of course coordinators: CoordenacaoBean over the table         *)
(* admin_coordenacao, coordenacoes.xhtml and its dialog, and the logins    *)
(* that read the same table to give a professor the role COORDENADOR.      *)
(*                                                                         *)
(* A button of a row reaches the server as a position in the list, which   *)
(* the server looks up in the list it then has: the bean's list and what a *)
(* tab has on the screen are therefore separate state.  Lists are sorted,  *)
(* so a set stands for a list.  One HTTP request is one step.              *)
(***************************************************************************)
EXTENDS Integers, FiniteSets

CONSTANTS
    Sessoes, Abas, SessaoDe,  \* sessions, tabs and the session of each tab
    Cursos, Professores,      \* of the SIE, as their ranks in the sort order
    Textos, Casa,             \* texts of the dialog, and whom each one finds
    MaxId,                    \* bound: ids of the auto-increment column
    MaxFalhas,                \* bound: calls to the database that fail
    Nulo                      \* Java's null

Ids == 1..MaxId
Linhas == [id : Ids, curso : Cursos, prof : Professores]

\* filtroCursoId: 0 stands for every course.
Filtros == Cursos \cup {0}

\* 0: the administrator, who is no professor.
Usuarios == Professores \cup {0}

Beans == [filtro  : Filtros,
          lista   : SUBSET Linhas,       \* entities
          profs   : SUBSET Professores,  \* professoresDisponiveis
          opcoes  : BOOLEAN]             \* cursosDisponiveis was filled

\* What a tab shows: the grid, the list of the dialog, and if it is open.
Telas == [grade : SUBSET Linhas, profs : SUBSET Professores, aberto : BOOLEAN]

ASSUME CoordenacaoAssumption ==
    /\ SessaoDe \in [Abas -> Sessoes]
    /\ Cursos \subseteq Nat \ {0} /\ Professores \subseteq Nat \ {0}
    /\ IsFiniteSet(Professores)
    /\ Casa \in [Textos -> SUBSET Professores]
    /\ MaxId \in Nat /\ MaxFalhas \in Nat
    /\ Nulo \notin Beans /\ Nulo \notin Telas /\ Nulo \notin Linhas

VARIABLES
    linhas,   \* the rows of the table
    proximo,  \* the next value of its auto-increment column
    admin,    \* the sessions that have the role ADMIN
    papel,    \* the courses in the data of the role COORDENADOR of a session,
              \* none when it does not have the role
    bean,     \* the bean of each session; Nulo before it is built
    tela,     \* what each tab shows of the page; Nulo when it is elsewhere
    falhas    \* database failures so far

vars == <<linhas, proximo, admin, papel, bean, tela, falhas>>

TypeOK ==
    /\ linhas \subseteq Linhas
    /\ proximo \in 1..MaxId + 1
    /\ admin \in [Sessoes -> BOOLEAN]
    /\ papel \in [Sessoes -> SUBSET Cursos]
    /\ bean \in [Sessoes -> Beans \cup {Nulo}]
    /\ tela \in [Abas -> Telas \cup {Nulo}]
    /\ falhas \in 0..MaxFalhas

Init ==
    /\ linhas = {}
    /\ proximo = 1
    /\ admin = [s \in Sessoes |-> FALSE]
    /\ papel = [s \in Sessoes |-> {}]
    /\ bean = [s \in Sessoes |-> Nulo]
    /\ tela = [t \in Abas |-> Nulo]
    /\ falhas = 0

Falha == falhas < MaxFalhas /\ falhas' = falhas + 1

-----------------------------------------------------------------------------
(* Queries, and the order in which they are shown *)

\* Mutant of Antes: the professors are not compared.
AntesPorCurso(x, y) == x.curso < y.curso

\* Coordenacao.compareTo(): by course, then by professor.
Antes(x, y) == x.curso < y.curso \/ (x.curso = y.curso /\ x.prof < y.prof)

\* The elements of L at the position r has in G.
NaPosicaoDe(r, G, L) ==
    { x \in L : Cardinality({ y \in L : Antes(y, x) })
                  = Cardinality({ y \in G : Antes(y, r) }) }

\* The same for the professors of the dialog, who are sorted by name.
ProfNaPosicaoDe(p, G, L) ==
    { q \in L : Cardinality({ k \in L : k < q }) = Cardinality({ k \in G : k < p }) }

\* The query of retrieve() on the rows R.
Recupera(filtro, R) == { l \in R : filtro = 0 \/ l.curso = filtro }

\* Mutant: the bean is built with no course in its filter.
NovoBeanSemFiltro == [filtro |-> Nulo, lista |-> linhas, profs |-> {}, opcoes |-> FALSE]

\* refresh(): the bean as it is built.
NovoBean == [filtro |-> 0, lista |-> linhas, profs |-> {}, opcoes |-> FALSE]

Bean(s) == IF bean[s] = Nulo THEN NovoBean ELSE bean[s]

-----------------------------------------------------------------------------
(* Sessions *)

\* SieModule.doLogin(): a professor with rows in the table coordinates their
\* courses, and goes on doing so, in this session, until the logout.  A login
\* over another adds its roles; addLoggedRole() keeps the data that are there.
Entra(t, u) ==
    LET s == SessaoDe[t]
        cursos == { l.curso : l \in { r \in linhas : r.prof = u } } IN
    /\ admin' = [admin EXCEPT ![s] = @ \/ u = 0]
    /\ papel' = [papel EXCEPT ![s] = IF @ = {} THEN cursos ELSE @]
    /\ tela' = [tela EXCEPT ![t] = Nulo]
    /\ UNCHANGED <<linhas, proximo, bean, falhas>>

\* logout() of a tab, or the answer that sends it to the login page or to the
\* index when its session lost the role: the page bean stays in the session.
Sai(t) ==
    LET s == SessaoDe[t] IN
    /\ admin' = [admin EXCEPT ![s] = FALSE]
    /\ papel' = [papel EXCEPT ![s] = {}]
    /\ tela' = [tela EXCEPT ![t] = Nulo]
    /\ UNCHANGED <<linhas, proximo, bean, falhas>>

Expira(s) ==
    /\ admin' = [admin EXCEPT ![s] = FALSE]
    /\ papel' = [papel EXCEPT ![s] = {}]
    /\ bean' = [bean EXCEPT ![s] = Nulo]
    /\ tela' = [t \in Abas |-> IF SessaoDe[t] = s THEN Nulo ELSE tela[t]]
    /\ UNCHANGED <<linhas, proximo, falhas>>

\* The permission of the page: ADMIN or COORDENADOR.
Acessa(s) == admin[s] \/ papel[s] # {}

-----------------------------------------------------------------------------
(* The page *)

\* The link of the menu, which drops the bean the session had.
AbrePagina(t) ==
    /\ Acessa(SessaoDe[t])
    /\ bean' = [bean EXCEPT ![SessaoDe[t]] = NovoBean]
    /\ tela' = [tela EXCEPT ![t] = [grade |-> linhas, profs |-> {}, aberto |-> FALSE]]
    /\ UNCHANGED <<linhas, proximo, admin, papel, falhas>>

\* The link of another page drops it too.
SaiDaPagina(t) ==
    /\ Acessa(SessaoDe[t])
    /\ tela[t] # Nulo
    /\ bean' = [bean EXCEPT ![SessaoDe[t]] = Nulo]
    /\ tela' = [tela EXCEPT ![t] = Nulo]
    /\ UNCHANGED <<linhas, proximo, admin, papel, falhas>>

\* A request of the page, or of its dialog, which is modal.
NaPagina(t) == Acessa(SessaoDe[t]) /\ tela[t] # Nulo /\ ~tela[t].aberto
NoDialogo(t) == Acessa(SessaoDe[t]) /\ tela[t] # Nulo /\ tela[t].aberto

\* retrieve(), by the button of the filter: the list is emptied, then read.
\* The button does not ask for the grid to be drawn again.
Busca(t, c) ==
    /\ NaPagina(t)
    /\ \E lista \in {Recupera(c, linhas), {}} :
          /\ bean' = [bean EXCEPT ![SessaoDe[t]] =
                          [Bean(SessaoDe[t]) EXCEPT !.filtro = c, !.lista = lista]]
          /\ \/ lista = Recupera(c, linhas) /\ UNCHANGED falhas
             \/ lista = {} /\ Falha
    /\ UNCHANGED <<linhas, proximo, admin, papel, tela>>

\* create(): the dialog is filled and shown.  The form carries the filter.
Cria(t, c) ==
    /\ NaPagina(t)
    /\ bean' = [bean EXCEPT ![SessaoDe[t]] =
                    [Bean(SessaoDe[t]) EXCEPT !.filtro = c, !.profs = Professores,
                                              !.opcoes = TRUE]]
    /\ tela' = [tela EXCEPT ![t].profs = Professores, ![t].aberto = TRUE]
    /\ UNCHANGED <<linhas, proximo, admin, papel, falhas>>

\* Mutant: the field of the text does not ask for the list to be drawn again.
FiltraSemTela(t, x) ==
    /\ NoDialogo(t)
    /\ bean' = [bean EXCEPT ![SessaoDe[t]] = [Bean(SessaoDe[t]) EXCEPT !.profs = Casa[x]]]
    /\ UNCHANGED <<linhas, proximo, admin, papel, tela, falhas>>

\* filterProfessores(): the list of the dialog follows the text typed.
Filtra(t, x) ==
    /\ NoDialogo(t)
    /\ bean' = [bean EXCEPT ![SessaoDe[t]] = [Bean(SessaoDe[t]) EXCEPT !.profs = Casa[x]]]
    /\ tela' = [tela EXCEPT ![t].profs = Casa[x]]
    /\ UNCHANGED <<linhas, proximo, admin, papel, falhas>>

\* The dialog is dismissed in the browser.
FechaDialogo(t) ==
    /\ tela[t] # Nulo /\ tela[t].aberto
    /\ tela' = [tela EXCEPT ![t].aberto = FALSE]
    /\ UNCHANGED <<linhas, proximo, admin, papel, bean, falhas>>

\* The list after retrieve(), which may fail once it has emptied it.
Relida(s, b) ==
    \/ bean' = [bean EXCEPT ![s] = [b EXCEPT !.lista = Recupera(b.filtro, linhas')]]
       /\ UNCHANGED falhas
    \/ bean' = [bean EXCEPT ![s] = [b EXCEPT !.lista = {}]] /\ Falha

\* Mutant: the deletion is of a course, not of a row.
ApagaDoCurso(x) == linhas' = { l \in linhas : l.curso # x.curso }

\* The row a delete of the element x removes.
Apaga(x) == linhas' = linhas \ {x}

\* delete(x): the row goes and the list is read again, unless the answer of
\* the commit is lost; or there is no such row, or the database fails.
Delete(s, b, x) ==
    \/ /\ x \in linhas
       /\ Apaga(x)
       /\ \/ Relida(s, b)
          \/ bean' = [bean EXCEPT ![s] = b] /\ Falha
    \/ /\ bean' = [bean EXCEPT ![s] = b]
       /\ UNCHANGED linhas
       /\ \/ x \notin linhas /\ UNCHANGED falhas
          \/ Falha

\* Mutant of Exclui: the button does not ask for the grid to be drawn again.
ExcluiSemTela(t, r, c) ==
    LET s == SessaoDe[t]
        b == [Bean(s) EXCEPT !.filtro = c] IN
    /\ NaPagina(t)
    /\ r \in tela[t].grade
    /\ \E x \in NaPosicaoDe(r, tela[t].grade, b.lista) : Delete(s, b, x)
    /\ UNCHANGED <<proximo, admin, papel, tela>>

\* The button of the row r of the grid, with the filter c in the form.  When
\* the list of the bean is shorter than the position nothing is called.
Exclui(t, r, c) ==
    LET s == SessaoDe[t]
        b == [Bean(s) EXCEPT !.filtro = c]
        alvo == NaPosicaoDe(r, tela[t].grade, b.lista) IN
    /\ NaPagina(t)
    /\ r \in tela[t].grade
    /\ \/ \E x \in alvo : Delete(s, b, x)
       \/ /\ alvo = {}
          /\ bean' = [bean EXCEPT ![s] = b]
          /\ UNCHANGED <<linhas, falhas>>
    /\ tela' = [tela EXCEPT ![t].grade = bean'[s].lista]
    /\ UNCHANGED <<proximo, admin, papel>>

\* UNIQUE KEY (fk_xls_prof, fk_xls_curso)
Repetida(p, c) == \E l \in linhas : l.prof = p /\ l.curso = c

\* persist(): the row is inserted and the list read again, unless the answer
\* of the commit is lost; or the pair is there already, or the database
\* fails.  An insert that is undone may use up an id.
Persist(s, b, p, c) ==
    \/ /\ ~Repetida(p, c)
       /\ proximo \in Ids
       /\ linhas' = linhas \cup {[id |-> proximo, curso |-> c, prof |-> p]}
       /\ proximo' = proximo + 1
       /\ \/ Relida(s, b)
          \/ bean' = [bean EXCEPT ![s] = b] /\ Falha
    \/ /\ bean' = [bean EXCEPT ![s] = b]
       /\ UNCHANGED linhas
       /\ \/ Repetida(p, c) /\ UNCHANGED falhas
          \/ Falha
       /\ proximo' = proximo \/ (proximo \in Ids /\ proximo' = proximo + 1)

\* The button of the professor p of the dialog, with the course c in the form.
\* The grid and the dialog are drawn again; a dialog that hideDialog() did not
\* close may stay open.
Persiste(t, p, c) ==
    LET s == SessaoDe[t]
        b == Bean(s)
        alvo == ProfNaPosicaoDe(p, tela[t].profs, b.profs) IN
    /\ NoDialogo(t)
    /\ p \in tela[t].profs
    /\ \/ b.opcoes /\ \E q \in alvo : Persist(s, b, q, c)
       \/ /\ alvo = {} \/ ~b.opcoes
          /\ bean' = [bean EXCEPT ![s] = b]
          /\ UNCHANGED <<linhas, proximo, falhas>>
    /\ \E fica \in BOOLEAN :
          /\ fica => linhas' = linhas \/ falhas' # falhas
          /\ tela' = [tela EXCEPT ![t] = [grade  |-> bean'[s].lista,
                                          profs  |-> bean'[s].profs,
                                          aberto |-> fica]]
    /\ UNCHANGED <<admin, papel>>

Next ==
    \/ \E s \in Sessoes : Expira(s)
    \/ \E t \in Abas :
          \/ \E u \in Usuarios : Entra(t, u)
          \/ Sai(t) \/ AbrePagina(t) \/ SaiDaPagina(t) \/ FechaDialogo(t)
          \/ \E c \in Filtros : Busca(t, c) \/ Cria(t, c)
          \/ \E x \in Textos : Filtra(t, x)
          \/ tela[t] # Nulo /\ \E r \in tela[t].grade, c \in Filtros : Exclui(t, r, c)
          \/ tela[t] # Nulo /\ \E p \in tela[t].profs, c \in Cursos : Persiste(t, p, c)

Spec == Init /\ [][Next]_vars

-----------------------------------------------------------------------------
(* What holds *)

\* Sessions of one tab: a coordination is created only for the professor
\* whose button was pressed and the course in the form, whatever was typed
\* in the filter before (CoordenacaoBean.filterProfessores, persist).
PersisteOEscolhido ==
    [][\A l \in linhas' \ linhas : \A t \in Abas, p \in Professores, c \in Cursos :
          tela[t] # Nulo /\ Persiste(t, p, c) => l.prof = p /\ l.curso = c]_vars

\* Any sessions, tabs and failures: one request inserts or removes one row,
\* and a removed row does not come back (_DaoHibernateAbstract).
LinhaDe(i) == IF \E l \in linhas : l.id = i THEN CHOOSE l \in linhas : l.id = i ELSE Nulo
Cad == INSTANCE Cadastro WITH
          Registros <- Linhas, proxima <- proximo,
          registros <- [i \in Ids |-> LinhaDe(i)]
ImplementaCadastro == Cad!CadastroSpec

\* The grid on the screen is the list in which the buttons of its rows are
\* looked up.
GradeEmDia(t) ==
    tela[t] # Nulo =>
        bean[SessaoDe[t]] # Nulo /\ tela[t].grade = bean[SessaoDe[t]].lista

\* Any sessions, tabs and failures, whatever the filter and the other sessions
\* did to the table since the list was read: as long as the grid is the list,
\* a button removes its own row or none (compareTo and delete()).
RemoveDaGrade ==
    [][\A x \in linhas \ linhas' : \A t \in Abas, r \in Linhas, c \in Filtros :
          tela[t] # Nulo /\ GradeEmDia(t) /\ Exclui(t, r, c) => x = r]_vars

\* Sessions of one tab: the grid stops being the list in a search alone.  Every
\* other answer, the refused and the failed ones too, draws again what the
\* request changed (the update attributes of coordenacoes.xhtml).
SoABuscaDesatualiza ==
    [][\A t \in Abas :
          GradeEmDia(t) /\ ~(\E c \in Filtros : Busca(t, c)) => GradeEmDia(t)']_vars

(* What the code says of itself *)

\* "Remove o item selecionado" (CoordenacaoBean.delete): the coordination that
\* disappears is the one whose button was pressed.
RemoveOSelecionado ==
    [][\A t \in Abas, r \in Linhas, c \in Filtros :
          tela[t] # Nulo /\ Exclui(t, r, c) => linhas \ linhas' \subseteq {r}]_vars

=============================================================================
