------------------------------ MODULE Consulta ------------------------------
(***************************************************************************)
(* The query pages of the SIE module: a page bean of the session holds the *)
(* list its retrieve() filled, the DAO selects what the filter asks for    *)
(* among the courses of the user, and the pages of students and of classes *)
(* open a dialog on a row.  The data were read at startup and are constant.*)
(*                                                                         *)
(* A bean asks for the courses of the user the SessionBean it was given    *)
(* when built, and outlives logins and logouts.  A button of a row reaches *)
(* the server as a position, which is looked up in the list the bean then  *)
(* has: the list and what a tab has on the screen are separate state.  One *)
(* HTTP request is one step.                                               *)
(***************************************************************************)
EXTENDS SequencesExt

CONSTANTS
    Abas,            \* the tabs of the session
    Usuarios,        \* who may log in
    Sie,             \* the objects of each DAO, by the page that lists them
    Filtros,         \* what may be typed in the form of each page
    Digitadas,       \* bound: pages whose address somebody types
    Comeca(_, _),    \* the text y starts with x, accents and case apart
    Traz(_, _),      \* the text y has x somewhere in it, likewise
    Atual,           \* the SessionBean of the session
    Vazio, Nulo      \* the empty text, and Java's null

Paginas == {"cursos", "alunos", "professores", "disciplinas", "turmas", "inscricoes"}

\* What a SessionBean knows of who logged in: the roles, the courses of the
\* coordinations and those of the professor.
SemUsuario == [papeis |-> {}, coordena |-> {}, leciona |-> {}]

\* LoginFilter, with the permissions of SieModule.
Acessa(b) ==
    IF b.papeis \cap {"ADMIN", "COORDENADOR"} # {} THEN Paginas
    ELSE IF "PROFESSOR" \in b.papeis THEN {"disciplinas", "turmas"} ELSE {}

\* doLogin(): a coordinator is a professor with courses, and a professor has
\* the courses of his rows, null for one that no spreadsheet describes.  The
\* student of a registration is a student (Referencias of Importacao).
ASSUME ConsultaAssumption ==
    /\ DOMAIN Sie = Paginas /\ DOMAIN Filtros = Paginas
    /\ Digitadas \subseteq Paginas
    /\ \A p \in Paginas : IsFiniteSet(Sie[p]) /\ Nulo \notin Sie[p]
    /\ \A i \in Sie.inscricoes : i.aluno \in Sie.alunos
    /\ \A u \in Usuarios : /\ u.papeis # {}
                           /\ "COORDENADOR" \in u.papeis => "PROFESSOR" \in u.papeis
                           /\ "COORDENADOR" \in u.papeis <=> u.coordena # {}
                           /\ "PROFESSOR" \in u.papeis <=> u.leciona # {}

VARIABLES
    sessao,   \* the SessionBean of the session
    vinculo,  \* the SessionBean of each page bean: Atual, one that a logout
              \* detached, or Nulo for a bean that is not built
    lista,    \* entities of each bean
    tela      \* what each tab shows

vars == <<sessao, vinculo, lista, tela>>

\* linhas: the rows on the screen; escolhida: the row whose button opened the
\* dialog, Nulo without one; dialogo: what the dialog shows; doMenu: it was
\* opened from the menu, and nobody logged in or out since.
Quadro(p, s, x, d, m) ==
    [pagina |-> p, linhas |-> s, escolhida |-> x, dialogo |-> d, doMenu |-> m]

\* Without a dialog.
NaTela(p, s, m) == Quadro(p, s, Nulo, {}, m)

\* "index" stands for every page without a list.
Inicial == NaTela("index", <<>>, FALSE)

SemBeans == [p \in Paginas |-> Nulo]
Vazias == [p \in Paginas |-> <<>>]

Init ==
    /\ sessao = SemUsuario
    /\ vinculo = SemBeans
    /\ lista = Vazias
    /\ tela = [t \in Abas |-> Inicial]

-----------------------------------------------------------------------------
(* The queries of the DAOs *)

\* A text of the form, startsWith() of what it is compared with.
Acha(x, y) == x = Vazio \/ Comeca(x, y)

\* A value that is compared whole: a year, a term, a version of a course.
Igual(x, y) == x \in {Nulo, y}

\* cursos is empty when the user is not restricted.
Dentro(c, cursos) == cursos = {} \/ c \in cursos

VersoesDoFiltro(f, cursos) ==
    { v \in Sie.cursos :
        /\ Dentro(v.curso, cursos)
        /\ f.nome = Vazio \/ Traz(f.nome, v.nome)
        /\ Acha(f.sigla, v.curso) /\ Acha(f.versao, v.versao) }

\* Mutant: the CPF is not compared.
AlunosSemCpf(f, cursos) ==
    { a \in Sie.alunos :
        /\ Dentro(a.versao.curso, cursos)
        /\ Acha(f.nome, a.nome) /\ Acha(f.matr, a.matr)
        /\ Igual(f.versao, a.versao) }

AlunosDoFiltro(f, cursos) ==
    { a \in Sie.alunos :
        /\ Dentro(a.versao.curso, cursos)
        /\ Acha(f.nome, a.nome) /\ Acha(f.matr, a.matr) /\ Acha(f.cpf, a.cpf)
        /\ Igual(f.versao, a.versao) }

ProfessoresDoFiltro(f, cursos) ==
    { q \in Sie.professores :
        /\ cursos = {} \/ q.cursos \cap cursos # {}
        /\ Acha(f.nome, q.nome) /\ Acha(f.matr, q.matr) }

\* The code, the period and the option of the form are not compared.
DisciplinasDoFiltro(f, cursos) ==
    { d \in Sie.disciplinas :
        /\ Dentro(d.versao.curso, cursos)
        /\ Acha(f.nome, d.nome) /\ Igual(f.versao, d.versao) }

TurmasDoFiltro(f, cursos) ==
    { k \in Sie.turmas :
        /\ Dentro(k.disciplina.versao.curso, cursos)
        /\ Acha(f.nome, k.disciplina.nome) /\ Acha(f.disc, k.disciplina.codigo)
        /\ Acha(f.turma, k.codigo)
        /\ Igual(f.semestre, k.semestre) /\ Igual(f.ano, k.ano)
        /\ Igual(f.versao, k.disciplina.versao) }

InscricoesDoFiltro(f, cursos) ==
    { i \in Sie.inscricoes :
        /\ Dentro(i.turma.disciplina.versao.curso, cursos)
        /\ Acha(f.nome, i.turma.disciplina.nome) /\ Acha(f.disc, i.turma.disciplina.codigo)
        /\ Acha(f.turma, i.turma.codigo)
        /\ Acha(f.aluno, i.aluno.nome) /\ Acha(f.matr, i.aluno.matr) }

\* retrieveByAluno() and retrieveAlunosByTurma(), for the dialogs.
HistoricoDe(a) == { i \in Sie.inscricoes : i.aluno = a }

\* Mutant: the registrations and not their students.
InscricoesDaTurma(k) == { i \in Sie.inscricoes : i.turma = k }

AlunosDaTurma(k) == { i.aluno : i \in { j \in Sie.inscricoes : j.turma = k } }

\* VersaoCursoLabelConverter: the version sent back as a label is one that the
\* query of versions finds for its two parts.
Convertidas(v) ==
    IF v = Nulo THEN {Nulo}
    ELSE VersoesDoFiltro([nome |-> Vazio, sigla |-> v.curso, versao |-> v.versao], {})

\* The filter a form becomes.
Lidos(p, f) ==
    IF p \in {"alunos", "disciplinas", "turmas"}
    THEN { [f EXCEPT !.versao = v] : v \in Convertidas(f.versao) } ELSE {f}

-----------------------------------------------------------------------------
(* The page beans *)

\* A bean is built on demand, with the SessionBean of the moment.
ComBean(p) == [vinculo EXCEPT ![p] = IF @ = Nulo THEN Atual ELSE @]

\* The SessionBean the bean of the page p asks.
Dono(p) == IF vinculo[p] \in {Nulo, Atual} THEN sessao ELSE vinculo[p]

\* The courses a bean adds to its filter, from the roles of that SessionBean.
CursosDe(p, b) ==
    IF p \in {"disciplinas", "turmas"} THEN b.coordena \cup b.leciona ELSE b.coordena

\* The table of the page p is drawn with the objects S, sorted by a column.
Mostra(p, t, S) ==
    \E s \in SetToSeqs(S) :
        /\ lista' = [lista EXCEPT ![p] = s]
        /\ tela' = [tela EXCEPT ![t] = NaTela(p, s, @.doMenu)]

RetrieveCursos(t, f) ==
    Mostra("cursos", t, VersoesDoFiltro(f, CursosDe("cursos", Dono("cursos"))))
RetrieveAlunos(t, f) ==
    Mostra("alunos", t, AlunosDoFiltro(f, CursosDe("alunos", Dono("alunos"))))
RetrieveProfessores(t, f) ==
    Mostra("professores", t, ProfessoresDoFiltro(f, CursosDe("professores", Dono("professores"))))
RetrieveInscricoes(t, f) ==
    Mostra("inscricoes", t, InscricoesDoFiltro(f, CursosDe("inscricoes", Dono("inscricoes"))))
RetrieveDisciplinas(t, f) ==
    Mostra("disciplinas", t, DisciplinasDoFiltro(f, CursosDe("disciplinas", Dono("disciplinas"))))

\* This constructor of TurmaFilter leaves its courses null: a user with courses
\* to add gets a NullPointerException once the list is empty, and a page that
\* may have been drawn again or not.
RetrieveTurmas(t, f) ==
    IF CursosDe("turmas", Dono("turmas")) = {}
    THEN Mostra("turmas", t, TurmasDoFiltro(f, {}))
    ELSE /\ lista' = [lista EXCEPT !["turmas"] = <<>>]
         /\ tela' \in {tela, [tela EXCEPT ![t] = NaTela("turmas", <<>>, @.doMenu)]}

\* The button "Buscar" of the page p.
Retrieve(p, t, f) ==
    \/ p = "cursos" /\ RetrieveCursos(t, f)
    \/ p = "alunos" /\ RetrieveAlunos(t, f)
    \/ p = "professores" /\ RetrieveProfessores(t, f)
    \/ p = "inscricoes" /\ RetrieveInscricoes(t, f)
    \/ p = "disciplinas" /\ RetrieveDisciplinas(t, f)
    \/ p = "turmas" /\ RetrieveTurmas(t, f)

\* A request of the page, which LoginFilter lets through.  A dialog is modal.
NaPagina(p, t) ==
    /\ p \in Acessa(sessao)
    /\ tela[t].pagina = p /\ tela[t].escolhida = Nulo

Busca(p, t, f) ==
    /\ NaPagina(p, t)
    /\ \E g \in Lidos(p, f) : Retrieve(p, t, g)
    /\ vinculo' = ComBean(p)
    /\ UNCHANGED sessao

\* Mutant: the sort is of the list alone, and the table is not drawn again.
OrdenaSemTela(p, t) ==
    /\ NaPagina(p, t)
    /\ \E s \in SetToSeqs(ToSet(lista[p])) : lista' = [lista EXCEPT ![p] = s]
    /\ vinculo' = ComBean(p)
    /\ UNCHANGED <<sessao, tela>>

\* The header of a column sorts the list of the bean.
Ordena(p, t) ==
    /\ NaPagina(p, t)
    /\ Mostra(p, t, ToSet(lista[p]))
    /\ vinculo' = ComBean(p)
    /\ UNCHANGED sessao

\* listaHistoricoAlunos() and listaAlunos()
Dialogo(p, x) == IF p = "alunos" THEN HistoricoDe(x) ELSE AlunosDaTurma(x)

\* The button of the row n.  The page is drawn again; when the list has no such
\* row nothing is called.
AbreDialogo(p, t, n) ==
    /\ NaPagina(p, t) /\ p \in {"alunos", "turmas"}
    /\ n \in DOMAIN tela[t].linhas
    /\ tela' = [tela EXCEPT ![t] =
          IF n \in DOMAIN lista[p]
          THEN Quadro(p, lista[p], @.linhas[n], Dialogo(p, lista[p][n]), @.doMenu)
          ELSE NaTela(p, lista[p], @.doMenu)]
    /\ vinculo' = ComBean(p)
    /\ UNCHANGED <<sessao, lista>>

\* In the browser.
FechaDialogo(t) ==
    /\ tela[t].escolhida # Nulo
    /\ tela' = [tela EXCEPT ![t] = NaTela(@.pagina, @.linhas, @.doMenu)]
    /\ UNCHANGED <<sessao, vinculo, lista>>

-----------------------------------------------------------------------------
(* Pages, logins and logouts *)

\* Mutant of Renova: the parameter refresh is ignored.
Conserva(p) == vinculo' = ComBean(p) /\ UNCHANGED lista

\* WipeCacheFilter drops every page bean, and that of the page is built again.
Renova(p) == vinculo' = [SemBeans EXCEPT ![p] = Atual] /\ lista' = Vazias

\* A link of the menu.
AbrePagina(p, t) ==
    /\ tela[t].escolhida = Nulo
    /\ p \in Acessa(sessao)
    /\ Renova(p)
    /\ tela' = [tela EXCEPT ![t] = NaTela(p, lista'[p], TRUE)]
    /\ UNCHANGED sessao

\* The address of a page: it is drawn with the bean there is.
Digita(p, t) ==
    /\ p \in Digitadas \cap Acessa(sessao)
    /\ vinculo' = ComBean(p)
    /\ tela' = [tela EXCEPT ![t] = NaTela(p, lista[p], FALSE)]
    /\ UNCHANGED <<sessao, lista>>

\* No tab counts as opened from the menu any more.
SemMenu ==
    [t \in Abas |-> LET q == tela[t] IN
                    Quadro(q.pagina, q.linhas, q.escolhida, q.dialogo, FALSE)]

\* addLoggedRole(): a role that is there keeps its data.
AddLoggedRoles(b, u) ==
    [papeis   |-> b.papeis \cup u.papeis,
     coordena |-> IF "COORDENADOR" \in b.papeis THEN b.coordena ELSE u.coordena,
     leciona  |-> IF "PROFESSOR" \in b.papeis THEN b.leciona ELSE u.leciona]

\* Through the login page, whose address is open to all.
Login(t, u) ==
    /\ sessao' = AddLoggedRoles(sessao, u)
    /\ tela' = [SemMenu EXCEPT ![t] = Inicial]
    /\ UNCHANGED <<vinculo, lista>>

\* The attribute sessionBean is removed: the page beans keep the object.
Logout(t) ==
    /\ tela[t].escolhida = Nulo
    /\ sessao.papeis # {} /\ tela[t].pagina \in Acessa(sessao) \cup {"index"}
    /\ sessao' = SemUsuario
    /\ vinculo' = [p \in Paginas |-> IF vinculo[p] = Atual THEN sessao ELSE vinculo[p]]
    /\ tela' = [SemMenu EXCEPT ![t] = Inicial]
    /\ UNCHANGED lista

\* The container drops the session; its pages can only be left.
Expira ==
    /\ sessao' = SemUsuario
    /\ vinculo' = SemBeans /\ lista' = Vazias
    /\ tela' = [t \in Abas |-> Inicial]

Next ==
    \/ Expira
    \/ \E t \in Abas :
          \/ FechaDialogo(t) \/ Logout(t)
          \/ \E u \in Usuarios : Login(t, u)
          \/ \E p \in Paginas :
                \/ AbrePagina(p, t) \/ Digita(p, t) \/ Ordena(p, t)
                \/ \E f \in Filtros[p] : Busca(p, t, f)
                \/ \E n \in DOMAIN tela[t].linhas : AbreDialogo(p, t, n)

Spec == Init /\ [][Next]_vars

-----------------------------------------------------------------------------
(* What holds *)

SessionBeans == [papeis   : SUBSET UNION { u.papeis : u \in Usuarios },
                 coordena : SUBSET UNION { u.coordena : u \in Usuarios },
                 leciona  : SUBSET UNION { u.leciona : u \in Usuarios }]

\* What the dialog of a page lists: registrations of a student, or the students
\* of a class.
DoDialogo(p) == IF p = "alunos" THEN Sie.inscricoes ELSE Sie.alunos

Quadros(p) == [pagina : {p}, linhas : Seq(Sie[p]), escolhida : Sie[p] \cup {Nulo},
               dialogo : SUBSET DoDialogo(p), doMenu : BOOLEAN]

\* The shape of the state: a page lists the objects of its DAO, and a dialog
\* registrations or students (entities, inscricoes and alunos of the beans).
TypeOK ==
    /\ sessao \in SessionBeans
    /\ vinculo \in [Paginas -> SessionBeans \cup {Nulo, Atual}]
    /\ DOMAIN lista = Paginas /\ DOMAIN tela = Abas
    /\ \A p \in Paginas : lista[p] \in Seq(Sie[p])
    /\ \A t \in Abas : tela[t] = Inicial \/ \E p \in Paginas : tela[t] \in Quadros(p)

\* The courses an object of a page belongs to.
CursosDoObjeto(p, x) ==
    IF p = "cursos" THEN {x.curso}
    ELSE IF p = "professores" THEN x.cursos
    ELSE IF p = "turmas" THEN {x.disciplina.versao.curso}
    ELSE IF p = "inscricoes" THEN {x.turma.disciplina.versao.curso}
    ELSE {x.versao.curso}

\* An object that the user of the SessionBean b may see in the page p.
Permitido(p, x, b) ==
    CursosDe(p, b) = {} \/ CursosDoObjeto(p, x) \cap CursosDe(p, b) # {}

\* Whoever is restricted to courses has only rows of these courses in the pages
\* opened from the menu, whatever was searched, sorted and left behind by the
\* users of the session before, and whichever tab logged in or out: the beans
\* they used have gone (WipeCacheFilter), and the filter is filled with the
\* courses of who logged in (retrieve of the beans and the DAOs).
SoDosSeusCursos ==
    \A t \in Abas :
        tela[t].doMenu =>
            \A x \in ToSet(tela[t].linhas) : Permitido(tela[t].pagina, x, sessao)

\* A session of one tab: the dialog shows the record of the student, or the
\* class, of the row whose button was pressed (AlunoBean.listaHistoricoAlunos,
\* TurmaBean.listaAlunos).
DialogoDaEscolhida ==
    \A t \in Abas :
        tela[t].escolhida # Nulo =>
            tela[t].dialogo = Dialogo(tela[t].pagina, tela[t].escolhida)

\* What each field of the form of a page stands for in an object of the page,
\* as the labels of the form say.
Rotulos(p, x) ==
    IF p = "cursos" THEN [nome |-> x.nome, sigla |-> x.curso, versao |-> x.versao]
    ELSE IF p = "alunos"
    THEN [nome |-> x.nome, matr |-> x.matr, cpf |-> x.cpf, versao |-> x.versao]
    ELSE IF p = "professores" THEN [nome |-> x.nome, matr |-> x.matr]
    ELSE IF p = "disciplinas"
    THEN [nome |-> x.nome, codigo |-> x.codigo, periodo |-> x.periodo,
          optativa |-> x.optativa, versao |-> x.versao]
    ELSE IF p = "turmas"
    THEN [nome |-> x.disciplina.nome, disc |-> x.disciplina.codigo, turma |-> x.codigo,
          semestre |-> x.semestre, ano |-> x.ano, versao |-> x.disciplina.versao]
    ELSE [nome |-> x.turma.disciplina.nome, disc |-> x.turma.disciplina.codigo,
          turma |-> x.turma.codigo, aluno |-> x.aluno.nome, matr |-> x.aluno.matr]

\* The value v of the field c of a form of the page p agrees with the value y of
\* an object: empty, the same, or the start of it; a part of it for the name of
\* a course.  Terms, years and versions are chosen, not typed.
Concorda(p, c, v, y) ==
    \/ v \in {Vazio, Nulo}
    \/ v = y
    \/ p = "cursos" /\ c = "nome" /\ Traz(v, y)
    \/ /\ c \notin {"ano", "semestre", "optativa"}
       /\ c = "versao" => p = "cursos"
       /\ Comeca(v, y)

\* The objects of the user's courses that agree with every field filled in.
Pedidos(p, f) ==
    { x \in Sie[p] :
        /\ Permitido(p, x, sessao)
        /\ \A c \in DOMAIN f : Concorda(p, c, f[c], Rotulos(p, x)[c]) }

\* After a search the table has what was asked for, no less and no more.
Atendida(p) ==
    \A t \in Abas, f \in Filtros[p] :
        tela[t].doMenu /\ Busca(p, t, f) => ToSet(tela'[t].linhas) = Pedidos(p, f)

\* The pages of courses, students, professors and registrations, opened from
\* the menu, answer every search of any user with exactly what was asked for,
\* and so does that of classes for users without courses (retrieveBy...Filter).
BuscasAtendidas ==
    [][/\ \A p \in {"cursos", "alunos", "professores", "inscricoes"} : Atendida(p)
       /\ CursosDe("turmas", sessao) = {} => Atendida("turmas")]_vars

=============================================================================
