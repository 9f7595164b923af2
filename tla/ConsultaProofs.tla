--------------------------- MODULE ConsultaProofs ---------------------------
(***************************************************************************)
(* What TLAPS proves of Consulta, for any data, forms, users and tabs:     *)
(* types, the courses a page shows against the login, what a search        *)
(* answers, and the dialog against the row, in a session of one tab.       *)
(***************************************************************************)
EXTENDS Consulta, FiniteSetTheorems, SequenceTheorems, TLAPS

-----------------------------------------------------------------------------
(* What the queries give *)

\* An order of a set is a list, and has only its elements.
LEMMA Ordens ==
    ASSUME NEW X, IsFiniteSet(X), NEW S \in SUBSET X, NEW s \in SetToSeqs(S)
    PROVE  s \in Seq(X) /\ ToSet(s) \subseteq S
<1>1. IsFiniteSet(S)
  BY FS_Subset
<1>2. Cardinality(S) \in Nat
  BY <1>1, FS_CardinalityType
<1>3. s \in [1..Cardinality(S) -> S]
  BY DEF SetToSeqs
<1>4. s \in Seq(S)
  BY <1>2, <1>3, SeqDef
<1> QED BY <1>3, <1>4 DEF ToSet

\* What a DAO selects is of the page, and of the courses it was given.
LEMMA Selecao ==
    ASSUME NEW f, NEW b
    PROVE  /\ \A x \in VersoesDoFiltro(f, CursosDe("cursos", b)) :
                 x \in Sie.cursos /\ Permitido("cursos", x, b)
           /\ \A x \in AlunosDoFiltro(f, CursosDe("alunos", b)) :
                 x \in Sie.alunos /\ Permitido("alunos", x, b)
           /\ \A x \in ProfessoresDoFiltro(f, CursosDe("professores", b)) :
                 x \in Sie.professores /\ Permitido("professores", x, b)
           /\ \A x \in InscricoesDoFiltro(f, CursosDe("inscricoes", b)) :
                 x \in Sie.inscricoes /\ Permitido("inscricoes", x, b)
           /\ \A x \in DisciplinasDoFiltro(f, CursosDe("disciplinas", b)) :
                 x \in Sie.disciplinas /\ Permitido("disciplinas", x, b)
           /\ CursosDe("turmas", b) = {} =>
                 \A x \in TurmasDoFiltro(f, {}) :
                    x \in Sie.turmas /\ Permitido("turmas", x, b)
<1>1. \A x \in VersoesDoFiltro(f, CursosDe("cursos", b)) :
         x \in Sie.cursos /\ Permitido("cursos", x, b)
  BY DEF VersoesDoFiltro, Dentro, Permitido, CursosDoObjeto
<1>2. \A x \in AlunosDoFiltro(f, CursosDe("alunos", b)) :
         x \in Sie.alunos /\ Permitido("alunos", x, b)
  BY DEF AlunosDoFiltro, Dentro, Permitido, CursosDoObjeto
<1>3. \A x \in ProfessoresDoFiltro(f, CursosDe("professores", b)) :
         x \in Sie.professores /\ Permitido("professores", x, b)
  BY DEF ProfessoresDoFiltro, Permitido, CursosDoObjeto
<1>4. \A x \in InscricoesDoFiltro(f, CursosDe("inscricoes", b)) :
         x \in Sie.inscricoes /\ Permitido("inscricoes", x, b)
  BY DEF InscricoesDoFiltro, Dentro, Permitido, CursosDoObjeto
<1>5. \A x \in DisciplinasDoFiltro(f, CursosDe("disciplinas", b)) :
         x \in Sie.disciplinas /\ Permitido("disciplinas", x, b)
  BY DEF DisciplinasDoFiltro, Dentro, Permitido, CursosDoObjeto
<1>6. ASSUME CursosDe("turmas", b) = {}
      PROVE  \A x \in TurmasDoFiltro(f, {}) : x \in Sie.turmas /\ Permitido("turmas", x, b)
  BY <1>6 DEF TurmasDoFiltro, Permitido
<1> QED BY <1>1, <1>2, <1>3, <1>4, <1>5, <1>6

\* The list s takes the place of that of the page p, and the table is drawn with
\* it, unless the search of classes threw.
Troca(p, t, s) ==
    /\ s \in Seq(Sie[p])
    /\ lista' = [lista EXCEPT ![p] = s]
    /\ \/ tela' = [tela EXCEPT ![t] = NaTela(p, s, @.doMenu)]
       \/ tela' = tela /\ s = <<>>

LEMMA MostraTroca ==
    ASSUME NEW p \in Paginas, NEW t \in Abas, NEW S \in SUBSET Sie[p], Mostra(p, t, S)
    PROVE  \E s : Troca(p, t, s) /\ ToSet(s) \subseteq S
<1>1. IsFiniteSet(Sie[p])
  BY ConsultaAssumption
<1>2. PICK s \in SetToSeqs(S) :
         /\ lista' = [lista EXCEPT ![p] = s]
         /\ tela' = [tela EXCEPT ![t] = NaTela(p, s, @.doMenu)]
  BY DEF Mostra
<1>3. s \in Seq(Sie[p]) /\ ToSet(s) \subseteq S
  BY <1>1, Ordens
<1> QED BY <1>2, <1>3 DEF Troca

\* A search puts in the list only what the SessionBean of the bean may see.
LEMMA RetrieveTroca ==
    ASSUME NEW p \in Paginas, NEW t \in Abas, NEW f, Retrieve(p, t, f)
    PROVE  \E s : Troca(p, t, s) /\ \A x \in ToSet(s) : Permitido(p, x, Dono(p))
<1> DEFINE b == Dono(p)
           Certo(S) == \A x \in S : x \in Sie[p] /\ Permitido(p, x, b)
<1>1. ASSUME NEW S, Certo(S), Mostra(p, t, S)
      PROVE  \E s : Troca(p, t, s) /\ \A x \in ToSet(s) : Permitido(p, x, Dono(p))
  <2>1. S \in SUBSET Sie[p]
    BY <1>1
  <2>2. PICK s : Troca(p, t, s) /\ ToSet(s) \subseteq S
    BY <1>1, <2>1, MostraTroca
  <2> QED BY <1>1, <2>2
<1>2. CASE p = "cursos"
  <2>1. Mostra(p, t, VersoesDoFiltro(f, CursosDe("cursos", b)))
    BY <1>2 DEF Retrieve, RetrieveCursos
  <2>2. Certo(VersoesDoFiltro(f, CursosDe("cursos", b)))
    BY <1>2, Selecao
  <2> QED BY <1>1, <2>1, <2>2
<1>3. CASE p = "alunos"
  <2>1. Mostra(p, t, AlunosDoFiltro(f, CursosDe("alunos", b)))
    BY <1>3 DEF Retrieve, RetrieveAlunos
  <2>2. Certo(AlunosDoFiltro(f, CursosDe("alunos", b)))
    BY <1>3, Selecao
  <2> QED BY <1>1, <2>1, <2>2
<1>4. CASE p = "professores"
  <2>1. Mostra(p, t, ProfessoresDoFiltro(f, CursosDe("professores", b)))
    BY <1>4 DEF Retrieve, RetrieveProfessores
  <2>2. Certo(ProfessoresDoFiltro(f, CursosDe("professores", b)))
    BY <1>4, Selecao
  <2> QED BY <1>1, <2>1, <2>2
<1>5. CASE p = "inscricoes"
  <2>1. Mostra(p, t, InscricoesDoFiltro(f, CursosDe("inscricoes", b)))
    BY <1>5 DEF Retrieve, RetrieveInscricoes
  <2>2. Certo(InscricoesDoFiltro(f, CursosDe("inscricoes", b)))
    BY <1>5, Selecao
  <2> QED BY <1>1, <2>1, <2>2
<1>6. CASE p = "disciplinas"
  <2>1. Mostra(p, t, DisciplinasDoFiltro(f, CursosDe("disciplinas", b)))
    BY <1>6 DEF Retrieve, RetrieveDisciplinas
  <2>2. Certo(DisciplinasDoFiltro(f, CursosDe("disciplinas", b)))
    BY <1>6, Selecao
  <2> QED BY <1>1, <2>1, <2>2
<1>7. CASE p = "turmas"
  <2>1. RetrieveTurmas(t, f)
    BY <1>7 DEF Retrieve
  <2>2. CASE CursosDe("turmas", b) = {}
    <3>1. Mostra(p, t, TurmasDoFiltro(f, {}))
      BY <1>7, <2>1, <2>2 DEF RetrieveTurmas
    <3>2. Certo(TurmasDoFiltro(f, {}))
      BY <1>7, <2>2, Selecao
    <3> QED BY <1>1, <3>1, <3>2
  <2>3. CASE CursosDe("turmas", b) # {}
    <3>1. Troca(p, t, <<>>)
      BY <1>7, <2>1, <2>3 DEF RetrieveTurmas, Troca
    <3>2. ToSet(<<>>) = {}
      BY DEF ToSet
    <3> QED BY <3>1, <3>2
  <2> QED BY <2>2, <2>3
<1> QED BY <1>2, <1>3, <1>4, <1>5, <1>6, <1>7 DEF Paginas

-----------------------------------------------------------------------------
(* Types *)

\* What a tab may show.
Visto(q) == q = Inicial \/ \E p \in Paginas : q \in Quadros(p)

LEMMA NaTelaTipo ==
    ASSUME NEW p \in Paginas, NEW s \in Seq(Sie[p]), NEW d \in BOOLEAN
    PROVE  NaTela(p, s, d) \in Quadros(p)
BY DEF NaTela, Quadro, Quadros

LEMMA VistoTipo ==
    ASSUME NEW q, Visto(q)
    PROVE  /\ q.doMenu \in BOOLEAN
           /\ q.doMenu => q.pagina \in Paginas
           /\ q.escolhida # Nulo => q.pagina \in Paginas
           /\ q.pagina \in Paginas => q \in Quadros(q.pagina)
           /\ Visto(Quadro(q.pagina, q.linhas, q.escolhida, q.dialogo, FALSE))
<1>1. CASE q = Inicial
  BY <1>1 DEF Inicial, NaTela, Quadro, Visto, Paginas
<1>2. CASE \E p \in Paginas : q \in Quadros(p)
  <2>1. PICK p \in Paginas : q \in Quadros(p)
    BY <1>2
  <2>2. Quadro(q.pagina, q.linhas, q.escolhida, q.dialogo, FALSE) \in Quadros(p)
    BY <2>1 DEF Quadro, Quadros
  <2>3. q.pagina = p /\ q.doMenu \in BOOLEAN
    BY <2>1 DEF Quadros
  <2> QED BY <2>1, <2>2, <2>3 DEF Visto
<1> QED BY <1>1, <1>2 DEF Visto

LEMMA SessionBeanTipo ==
    /\ SemUsuario \in SessionBeans
    /\ \A b \in SessionBeans, u \in Usuarios : AddLoggedRoles(b, u) \in SessionBeans
BY DEF SemUsuario, SessionBeans, AddLoggedRoles

LEMMA TrocaTipo ==
    ASSUME TypeOK, NEW p \in Paginas, NEW t \in Abas, NEW s, Troca(p, t, s),
           UNCHANGED sessao, vinculo' = ComBean(p)
    PROVE  TypeOK'
<1>1. vinculo' \in [Paginas -> SessionBeans \cup {Nulo, Atual}]
  BY DEF TypeOK, ComBean
<1>2. DOMAIN lista' = Paginas /\ DOMAIN tela' = Abas
  BY DEF TypeOK, Troca
<1>3. \A x \in Paginas : lista'[x] \in Seq(Sie[x])
  BY DEF TypeOK, Troca
<1>4. NaTela(p, s, tela[t].doMenu) \in Quadros(p)
  <2>1. Visto(tela[t])
    BY DEF TypeOK, Visto
  <2> QED BY <2>1, VistoTipo, NaTelaTipo DEF Troca
<1>5. ASSUME NEW u \in Abas PROVE Visto(tela'[u])
  <2>1. Visto(tela[u])
    BY DEF TypeOK, Visto
  <2>2. tela'[u] = tela[u] \/ tela'[u] = NaTela(p, s, tela[t].doMenu)
    BY DEF TypeOK, Troca
  <2> QED BY <1>4, <2>1, <2>2 DEF Visto
<1> QED BY <1>1, <1>2, <1>3, <1>5 DEF TypeOK, Visto

\* The types that remain after any step, of which TypeOK is made.
LEMMA Remonta ==
    ASSUME sessao' \in SessionBeans,
           vinculo' \in [Paginas -> SessionBeans \cup {Nulo, Atual}],
           DOMAIN lista' = Paginas, \A p \in Paginas : lista'[p] \in Seq(Sie[p]),
           DOMAIN tela' = Abas, \A t \in Abas : Visto(tela'[t])
    PROVE  TypeOK'
BY DEF TypeOK, Visto

\* Every reachable state has the shape of TypeOK: whatever was searched, sorted
\* and clicked, a page lists objects of its own DAO, and a dialog registrations
\* or students (entities, inscricoes and alunos of the page beans).
THEOREM Tipos == Spec => []TypeOK
<1>1. Init => TypeOK
  BY SessionBeanTipo DEF Init, TypeOK, SemBeans, Vazias
<1>2. ASSUME TypeOK, [Next]_vars PROVE TypeOK'
  <2> DEFINE L == DOMAIN lista' = Paginas /\ \A p \in Paginas : lista'[p] \in Seq(Sie[p])
             T == DOMAIN tela' = Abas /\ \A t \in Abas : Visto(tela'[t])
             V == vinculo' \in [Paginas -> SessionBeans \cup {Nulo, Atual}]
  <2>0. \A t \in Abas : Visto(tela[t])
    BY <1>2 DEF TypeOK, Visto
  <2>1. SemBeans \in [Paginas -> SessionBeans \cup {Nulo, Atual}]
        /\ DOMAIN Vazias = Paginas /\ \A p \in Paginas : Vazias[p] \in Seq(Sie[p])
    BY DEF SemBeans, Vazias
  <2>2. \A p \in Paginas : ComBean(p) \in [Paginas -> SessionBeans \cup {Nulo, Atual}]
    BY <1>2 DEF TypeOK, ComBean
  <2>3. Visto(Inicial)
    BY DEF Visto
  <2>4. CASE Expira
    <3>1. L /\ V
      BY <2>1, <2>4 DEF Expira
    <3>2. T
      BY <2>3, <2>4 DEF Expira
    <3> QED BY <2>4, <3>1, <3>2, SessionBeanTipo, Remonta DEF Expira
  <2>5. ASSUME NEW t \in Abas, FechaDialogo(t) PROVE TypeOK'
    <3>1. tela[t].pagina \in Paginas /\ tela[t] \in Quadros(tela[t].pagina)
      BY <2>0, <2>5, VistoTipo DEF FechaDialogo
    <3>2. Visto(NaTela(tela[t].pagina, tela[t].linhas, tela[t].doMenu))
      BY <3>1, NaTelaTipo DEF Quadros, Visto
    <3>3. T
      BY <1>2, <2>0, <2>5, <3>2 DEF FechaDialogo, TypeOK
    <3> QED BY <1>2, <2>5, <3>3, Remonta DEF FechaDialogo, TypeOK
  <2>6. ASSUME NEW t \in Abas, Logout(t) PROVE TypeOK'
    <3>1. T
      <4>1. \A u \in Abas : Visto(SemMenu[u])
        BY <2>0, VistoTipo DEF SemMenu
      <4> QED BY <2>3, <2>6, <4>1 DEF Logout, SemMenu
    <3>2. V
      BY <1>2, <2>6 DEF Logout, TypeOK
    <3> QED BY <1>2, <2>6, <3>1, <3>2, SessionBeanTipo, Remonta DEF Logout, TypeOK
  <2>7. ASSUME NEW t \in Abas, NEW u \in Usuarios, Login(t, u) PROVE TypeOK'
    <3>1. T
      <4>1. \A v \in Abas : Visto(SemMenu[v])
        BY <2>0, VistoTipo DEF SemMenu
      <4> QED BY <2>3, <2>7, <4>1 DEF Login, SemMenu
    <3> QED BY <1>2, <2>7, <3>1, SessionBeanTipo, Remonta DEF Login, TypeOK
  <2>8. ASSUME NEW t \in Abas, NEW p \in Paginas, AbrePagina(p, t) PROVE TypeOK'
    <3>1. L /\ V
      <4>1. L
        BY <2>1, <2>8 DEF AbrePagina, Renova
      <4>2. V
        BY <2>1, <2>8 DEF AbrePagina, Renova
      <4> QED BY <4>1, <4>2
    <3>2. Visto(NaTela(p, lista'[p], TRUE))
      BY <3>1, NaTelaTipo DEF Visto
    <3>3. T
      BY <1>2, <2>0, <2>8, <3>2 DEF AbrePagina, TypeOK
    <3> QED BY <1>2, <2>8, <3>1, <3>3, Remonta DEF AbrePagina, TypeOK
  <2>9. ASSUME NEW t \in Abas, NEW p \in Paginas, Digita(p, t) PROVE TypeOK'
    <3>1. Visto(NaTela(p, lista[p], FALSE))
      BY <1>2, NaTelaTipo DEF Visto, TypeOK
    <3>2. T
      BY <1>2, <2>0, <2>9, <3>1 DEF Digita, TypeOK
    <3> QED BY <1>2, <2>2, <2>9, <3>2, Remonta DEF Digita, TypeOK
  <2>10. ASSUME NEW t \in Abas, NEW p \in Paginas, Ordena(p, t) PROVE TypeOK'
    <3>1. ToSet(lista[p]) \in SUBSET Sie[p]
      BY <1>2 DEF TypeOK, ToSet
    <3> QED BY <1>2, <2>10, <3>1, MostraTroca, TrocaTipo DEF Ordena
  <2>11. ASSUME NEW t \in Abas, NEW p \in Paginas, NEW f \in Filtros[p], Busca(p, t, f)
         PROVE  TypeOK'
    BY <1>2, <2>11, RetrieveTroca, TrocaTipo DEF Busca
  <2>12. ASSUME NEW t \in Abas, NEW p \in Paginas, NEW n \in DOMAIN tela[t].linhas,
                AbreDialogo(p, t, n)
         PROVE  TypeOK'
    <3>1. tela[t] \in Quadros(p) /\ p \in {"alunos", "turmas"}
      BY <2>0, <2>12, VistoTipo DEF AbreDialogo, NaPagina
    <3>2. lista[p] \in Seq(Sie[p]) /\ tela[t].linhas[n] \in Sie[p]
      BY <1>2, <2>12, <3>1 DEF TypeOK, Quadros
    <3>3. \A x : Dialogo(p, x) \subseteq DoDialogo(p)
      BY <3>1, ConsultaAssumption DEF Dialogo, DoDialogo, HistoricoDe, AlunosDaTurma
    <3>4. \A x : Visto(Quadro(p, lista[p], tela[t].linhas[n], Dialogo(p, x), tela[t].doMenu))
      BY <3>1, <3>2, <3>3 DEF Quadro, Quadros, Visto
    <3>5. Visto(NaTela(p, lista[p], tela[t].doMenu))
      BY <3>1, <3>2, NaTelaTipo DEF Quadros, Visto
    <3>6. T
      BY <1>2, <2>0, <2>12, <3>4, <3>5 DEF AbreDialogo, TypeOK
    <3> QED BY <1>2, <2>2, <2>12, <3>6, Remonta DEF AbreDialogo, TypeOK
  <2>13. CASE UNCHANGED vars
    BY <1>2, <2>13 DEF TypeOK, vars, Quadros, Inicial, NaTela, Quadro
  <2> QED BY <1>2, <2>4, <2>5, <2>6, <2>7, <2>8, <2>9, <2>10, <2>11, <2>12, <2>13 DEF Next
<1> QED BY <1>1, <1>2, PTL DEF Spec

-----------------------------------------------------------------------------
(* Courses *)

\* The page beans that tabs opened from the menu use ask the SessionBean of the
\* session, and their lists, and the screens, have only what its user may see.
DoLogin ==
    \A t \in Abas :
        tela[t].doMenu =>
            LET p == tela[t].pagina IN
            /\ vinculo[p] \in {Nulo, Atual}
            /\ \A x \in ToSet(lista[p]) \cup ToSet(tela[t].linhas) : Permitido(p, x, sessao)

\* DoLogin after a step in which nobody logs in or out.
LEMMA DoLoginSegue ==
    ASSUME UNCHANGED sessao,
           \A u \in Abas :
               tela'[u].doMenu =>
                   /\ vinculo'[tela'[u].pagina] \in {Nulo, Atual}
                   /\ \A x \in ToSet(lista'[tela'[u].pagina]) :
                         Permitido(tela'[u].pagina, x, sessao)
                   /\ \A x \in ToSet(tela'[u].linhas) :
                         Permitido(tela'[u].pagina, x, sessao)
    PROVE  DoLogin'
BY DEF DoLogin, Permitido, CursosDe

\* The list of the page p has been replaced by s, of objects its bean may see.
LEMMA TrocaDoLogin ==
    ASSUME TypeOK, DoLogin, NEW p \in Paginas, NEW t \in Abas, NEW s,
           Troca(p, t, s), tela[t].pagina = p, UNCHANGED sessao, vinculo' = ComBean(p),
           vinculo[p] \in {Nulo, Atual} =>
               \A x \in ToSet(s) : Permitido(p, x, sessao)
    PROVE  DoLogin'
<1> SUFFICES ASSUME NEW u \in Abas, tela'[u].doMenu
             PROVE  /\ vinculo'[tela'[u].pagina] \in {Nulo, Atual}
                    /\ \A x \in ToSet(lista'[tela'[u].pagina]) :
                          Permitido(tela'[u].pagina, x, sessao)
                    /\ \A x \in ToSet(tela'[u].linhas) :
                          Permitido(tela'[u].pagina, x, sessao)
  BY DoLoginSegue
<1> DEFINE q == tela[u].pagina
<1>1. tela'[u] = tela[u] \/ (u = t /\ tela'[u] = NaTela(p, s, tela[t].doMenu))
  BY DEF Troca, TypeOK
<1>2. tela[u].doMenu /\ tela'[u].pagina = q
  BY <1>1 DEF NaTela, Quadro
<1>3. q \in Paginas
  BY <1>2, VistoTipo DEF TypeOK, Visto
<1>4. /\ vinculo[q] \in {Nulo, Atual}
      /\ \A x \in ToSet(lista[q]) \cup ToSet(tela[u].linhas) : Permitido(q, x, sessao)
  BY <1>2 DEF DoLogin
<1>5. vinculo'[q] \in {Nulo, Atual}
  BY <1>3, <1>4 DEF ComBean, TypeOK
<1>6. ASSUME q = p PROVE \A x \in ToSet(s) : Permitido(q, x, sessao)
  BY <1>4, <1>6
<1>7. \A x \in ToSet(lista'[q]) : Permitido(q, x, sessao)
  <2>1. CASE q = p
    BY <1>3, <1>6, <2>1 DEF Troca, TypeOK
  <2>2. CASE q # p
    BY <1>3, <1>4, <2>2 DEF Troca, TypeOK
  <2> QED BY <2>1, <2>2
<1>8. \A x \in ToSet(tela'[u].linhas) : Permitido(q, x, sessao)
  <2>1. CASE tela'[u] = tela[u]
    BY <1>4, <2>1
  <2>2. CASE u = t /\ tela'[u] = NaTela(p, s, tela[t].doMenu)
    BY <1>6, <2>2 DEF NaTela, Quadro
  <2> QED BY <1>1, <2>1, <2>2
<1> QED BY <1>2, <1>5, <1>7, <1>8

LEMMA DoLoginSempre == Spec => []DoLogin
<1>1. Init => DoLogin
  BY DEF Init, DoLogin, Inicial, NaTela, Quadro
<1>2. ASSUME TypeOK, DoLogin, [Next]_vars PROVE DoLogin'
  <2>0. \A t \in Abas : Visto(tela[t])
    BY <1>2 DEF TypeOK, Visto
  <2>1. CASE Expira
    BY <2>1 DEF Expira, DoLogin, Inicial, NaTela, Quadro
  <2>2. ASSUME NEW t \in Abas, FechaDialogo(t) PROVE DoLogin'
    <3>1. \A u \in Abas : /\ tela'[u].doMenu = tela[u].doMenu
                          /\ tela'[u].pagina = tela[u].pagina
                          /\ tela'[u].linhas = tela[u].linhas
      BY <1>2, <2>2 DEF FechaDialogo, TypeOK, NaTela, Quadro
    <3> QED BY <1>2, <2>2, <3>1 DEF FechaDialogo, DoLogin, Permitido, CursosDe
  <2>3. ASSUME NEW t \in Abas, Logout(t) PROVE DoLogin'
    BY <2>3 DEF Logout, SemMenu, DoLogin, Inicial, NaTela, Quadro
  <2>4. ASSUME NEW t \in Abas, NEW u \in Usuarios, Login(t, u) PROVE DoLogin'
    BY <2>4 DEF Login, SemMenu, DoLogin, Inicial, NaTela, Quadro
  <2>5. ASSUME NEW t \in Abas, NEW p \in Paginas, AbrePagina(p, t) PROVE DoLogin'
    <3>1. \A q \in Paginas : vinculo'[q] \in {Nulo, Atual} /\ lista'[q] = <<>>
      BY <2>5 DEF AbrePagina, Renova, SemBeans, Vazias
    <3>2. ToSet(<<>>) = {}
      BY DEF ToSet
    <3>3. ASSUME NEW u \in Abas, tela'[u].doMenu
          PROVE  /\ tela'[u].pagina \in Paginas
                 /\ \A x \in ToSet(tela'[u].linhas) : Permitido(tela'[u].pagina, x, sessao)
      <4>1. CASE u = t
        BY <1>2, <2>5, <3>1, <3>2, <4>1 DEF AbrePagina, TypeOK, NaTela, Quadro
      <4>2. CASE u # t
        <5>1. tela'[u] = tela[u]
          BY <1>2, <2>5, <4>2 DEF AbrePagina, TypeOK
        <5> QED BY <1>2, <2>0, <3>3, <5>1, VistoTipo DEF DoLogin
      <4> QED BY <4>1, <4>2
    <3>4. \A q \in Paginas : \A x \in ToSet(lista'[q]) : Permitido(q, x, sessao)
      BY <3>1, <3>2
    <3>5. ASSUME NEW u \in Abas, tela'[u].doMenu
          PROVE  /\ vinculo'[tela'[u].pagina] \in {Nulo, Atual}
                 /\ \A x \in ToSet(lista'[tela'[u].pagina]) :
                       Permitido(tela'[u].pagina, x, sessao)
                 /\ \A x \in ToSet(tela'[u].linhas) :
                       Permitido(tela'[u].pagina, x, sessao)
      BY <3>1, <3>3, <3>4, <3>5
    <3>6. UNCHANGED sessao
      BY <2>5 DEF AbrePagina
    <3> QED BY <3>5, <3>6, DoLoginSegue
  <2>6. ASSUME NEW t \in Abas, NEW p \in Paginas, Digita(p, t) PROVE DoLogin'
    <3>1. \A u \in Abas : tela'[u].doMenu => tela'[u] = tela[u]
      BY <1>2, <2>6 DEF Digita, TypeOK, NaTela, Quadro
    <3>2. \A q \in Paginas : vinculo[q] \in {Nulo, Atual} => vinculo'[q] \in {Nulo, Atual}
      BY <1>2, <2>6 DEF Digita, ComBean, TypeOK
    <3>3. ASSUME NEW u \in Abas, tela'[u].doMenu
          PROVE  /\ vinculo'[tela'[u].pagina] \in {Nulo, Atual}
                 /\ \A x \in ToSet(lista[tela'[u].pagina]) :
                       Permitido(tela'[u].pagina, x, sessao)
                 /\ \A x \in ToSet(tela'[u].linhas) :
                       Permitido(tela'[u].pagina, x, sessao)
      <4>1. tela'[u] = tela[u]
        BY <3>1, <3>3
      <4>2. tela[u].pagina \in Paginas
        BY <2>0, <3>3, <4>1, VistoTipo
      <4>3. /\ vinculo[tela[u].pagina] \in {Nulo, Atual}
            /\ \A x \in ToSet(lista[tela[u].pagina]) \cup ToSet(tela[u].linhas) :
                  Permitido(tela[u].pagina, x, sessao)
        BY <1>2, <3>3, <4>1 DEF DoLogin
      <4> QED BY <3>2, <4>1, <4>2, <4>3
    <3>4. UNCHANGED <<sessao, lista>>
      BY <2>6 DEF Digita
    <3> QED BY <3>3, <3>4, DoLoginSegue
  <2>7. ASSUME NEW t \in Abas, NEW p \in Paginas, Ordena(p, t) PROVE DoLogin'
    <3>1. ToSet(lista[p]) \in SUBSET Sie[p]
      BY <1>2 DEF TypeOK, ToSet
    <3>2. PICK s : Troca(p, t, s) /\ ToSet(s) \subseteq ToSet(lista[p])
      BY <2>7, <3>1, MostraTroca DEF Ordena
    <3>3. CASE tela[t].doMenu
      <4>1. \A x \in ToSet(lista[p]) : Permitido(p, x, sessao)
        BY <1>2, <2>7, <3>3 DEF Ordena, NaPagina, DoLogin
      <4> QED BY <1>2, <2>7, <3>2, <4>1, TrocaDoLogin DEF Ordena, NaPagina
    <3>4. CASE ~tela[t].doMenu
      <4>1. ASSUME NEW u \in Abas, tela'[u].doMenu
            PROVE  /\ tela'[u] = tela[u]
                   /\ vinculo'[tela[u].pagina] \in {Nulo, Atual}
                   /\ ToSet(lista'[tela[u].pagina]) \subseteq ToSet(lista[tela[u].pagina])
        <5>1. tela'[u] = tela[u]
          BY <1>2, <3>2, <3>4, <4>1 DEF Troca, TypeOK, NaTela, Quadro
        <5>2. tela[u].pagina \in Paginas /\ vinculo[tela[u].pagina] \in {Nulo, Atual}
          BY <1>2, <2>0, <4>1, <5>1, VistoTipo DEF DoLogin
        <5>3. vinculo'[tela[u].pagina] \in {Nulo, Atual}
          BY <1>2, <2>7, <5>2 DEF Ordena, ComBean, TypeOK
        <5>4. ToSet(lista'[tela[u].pagina]) \subseteq ToSet(lista[tela[u].pagina])
          BY <1>2, <3>2, <5>2 DEF Troca, TypeOK
        <5> QED BY <5>1, <5>3, <5>4
      <4> QED BY <1>2, <2>7, <4>1 DEF DoLogin, Ordena, Permitido, CursosDe
    <3> QED BY <3>3, <3>4
  <2>8. ASSUME NEW t \in Abas, NEW p \in Paginas, NEW f \in Filtros[p], Busca(p, t, f)
        PROVE  DoLogin'
    <3>1. PICK s : Troca(p, t, s) /\ \A x \in ToSet(s) : Permitido(p, x, Dono(p))
      BY <2>8, RetrieveTroca DEF Busca
    <3>2. vinculo[p] \in {Nulo, Atual} => Dono(p) = sessao
      BY DEF Dono
    <3> QED BY <1>2, <2>8, <3>1, <3>2, TrocaDoLogin DEF Busca, NaPagina
  <2>9. ASSUME NEW t \in Abas, NEW p \in Paginas, NEW n \in DOMAIN tela[t].linhas,
               AbreDialogo(p, t, n)
        PROVE  DoLogin'
    <3>1. \A q \in Paginas : vinculo[q] \in {Nulo, Atual} => vinculo'[q] \in {Nulo, Atual}
      BY <1>2, <2>9 DEF AbreDialogo, ComBean, TypeOK
    <3>2. \A u \in Abas : /\ tela'[u].doMenu = tela[u].doMenu
                          /\ tela'[u].pagina = tela[u].pagina
                          /\ \/ tela'[u].linhas = tela[u].linhas
                             \/ tela'[u].linhas = lista[tela[u].pagina]
      BY <1>2, <2>9 DEF AbreDialogo, NaPagina, TypeOK, NaTela, Quadro
    <3>3. ASSUME NEW u \in Abas, tela'[u].doMenu
          PROVE  /\ vinculo'[tela'[u].pagina] \in {Nulo, Atual}
                 /\ \A x \in ToSet(lista[tela'[u].pagina]) :
                       Permitido(tela'[u].pagina, x, sessao)
                 /\ \A x \in ToSet(tela'[u].linhas) :
                       Permitido(tela'[u].pagina, x, sessao)
      <4> DEFINE q == tela[u].pagina
      <4>1. tela[u].doMenu /\ tela'[u].pagina = q
        BY <3>2, <3>3
      <4>2. q \in Paginas
        BY <2>0, <4>1, VistoTipo
      <4>3. /\ vinculo[q] \in {Nulo, Atual}
            /\ \A x \in ToSet(lista[q]) \cup ToSet(tela[u].linhas) : Permitido(q, x, sessao)
        BY <1>2, <4>1 DEF DoLogin
      <4> QED BY <3>1, <3>2, <4>1, <4>2, <4>3
    <3> QED BY <2>9, <3>3, DoLoginSegue DEF AbreDialogo
  <2>10. CASE UNCHANGED vars
    BY <1>2, <2>10 DEF vars, DoLogin, Permitido, CursosDe
  <2> QED BY <1>2, <2>1, <2>2, <2>3, <2>4, <2>5, <2>6, <2>7, <2>8, <2>9, <2>10 DEF Next
<1> QED BY <1>1, <1>2, Tipos, PTL DEF Spec

\* Whoever is restricted to courses has only rows of these courses in the pages
\* opened from the menu, with any tabs, logins and logouts (WipeCacheFilter,
\* retrieve of the page beans and the filters of the DAOs).
THEOREM MostraSoOsSeus == Spec => []SoDosSeusCursos
<1>1. DoLogin => SoDosSeusCursos
  BY DEF DoLogin, SoDosSeusCursos
<1> QED BY <1>1, DoLoginSempre, PTL

-----------------------------------------------------------------------------
(* The dialog, in a session of one tab *)

\* The list of the bean is what the screen shows, or the search of classes that
\* threw left it empty.
UmaTela ==
    \A t \in Abas :
        LET p == tela[t].pagina IN
        p \in Paginas => lista[p] \in {tela[t].linhas, <<>>}

LEMMA TrocaUmaTela ==
    ASSUME TypeOK, UmaTela, DialogoDaEscolhida, NEW p \in Paginas, NEW t \in Abas, NEW s,
           Abas = {t}, Troca(p, t, s), tela[t].pagina = p
    PROVE  (UmaTela /\ DialogoDaEscolhida)'
<1>1. lista'[p] = s
  BY DEF Troca, TypeOK
<1>2. (tela'[t] = tela[t] /\ s = <<>>) \/ tela'[t] = NaTela(p, s, tela[t].doMenu)
  BY DEF Troca, TypeOK
<1>3. UmaTela'
  BY <1>1, <1>2 DEF UmaTela, NaTela, Quadro
<1>4. DialogoDaEscolhida'
  <2>1. CASE tela'[t] = tela[t]
    BY <2>1 DEF DialogoDaEscolhida, Dialogo, HistoricoDe, AlunosDaTurma
  <2>2. CASE tela'[t] = NaTela(p, s, tela[t].doMenu)
    BY <2>2 DEF DialogoDaEscolhida, NaTela, Quadro
  <2> QED BY <1>2, <2>1, <2>2
<1> QED BY <1>3, <1>4

\* With one tab in the session a dialog is that of the row whose button was
\* pressed, whatever was searched, sorted, left and logged into before
\* (AlunoBean.listaHistoricoAlunos, TurmaBean.listaAlunos).
THEOREM DialogoCerto ==
    ASSUME \A t, u \in Abas : t = u
    PROVE  Spec => []DialogoDaEscolhida
<1>1. Init => UmaTela /\ DialogoDaEscolhida
  BY DEF Init, UmaTela, DialogoDaEscolhida, Inicial, NaTela, Quadro, Paginas
<1>2. ASSUME TypeOK, UmaTela, DialogoDaEscolhida, [Next]_vars
      PROVE  (UmaTela /\ DialogoDaEscolhida)'
  <2> USE DEF Dialogo, HistoricoDe, AlunosDaTurma
  <2>0. \A t \in Abas : Visto(tela[t]) /\ Abas = {t}
    BY <1>2 DEF TypeOK, Visto
  <2>1. CASE Expira
    BY <2>1 DEF Expira, UmaTela, DialogoDaEscolhida, Inicial, NaTela, Quadro, Paginas
  <2>2. ASSUME NEW t \in Abas, FechaDialogo(t) PROVE (UmaTela /\ DialogoDaEscolhida)'
    BY <1>2, <2>0, <2>2 DEF FechaDialogo, TypeOK, UmaTela, DialogoDaEscolhida, NaTela, Quadro
  <2>3. ASSUME NEW t \in Abas, Logout(t) PROVE (UmaTela /\ DialogoDaEscolhida)'
    BY <2>0, <2>3 DEF Logout, SemMenu, UmaTela, DialogoDaEscolhida, Inicial, NaTela, Quadro,
                      Paginas
  <2>4. ASSUME NEW t \in Abas, NEW u \in Usuarios, Login(t, u)
        PROVE  (UmaTela /\ DialogoDaEscolhida)'
    BY <2>0, <2>4 DEF Login, SemMenu, UmaTela, DialogoDaEscolhida, Inicial, NaTela, Quadro,
                      Paginas
  <2>5. ASSUME NEW t \in Abas, NEW p \in Paginas, AbrePagina(p, t)
        PROVE  (UmaTela /\ DialogoDaEscolhida)'
    BY <1>2, <2>0, <2>5 DEF AbrePagina, TypeOK, UmaTela, DialogoDaEscolhida, NaTela, Quadro
  <2>6. ASSUME NEW t \in Abas, NEW p \in Paginas, Digita(p, t)
        PROVE  (UmaTela /\ DialogoDaEscolhida)'
    BY <1>2, <2>0, <2>6 DEF Digita, TypeOK, UmaTela, DialogoDaEscolhida, NaTela, Quadro
  <2>7. ASSUME NEW t \in Abas, NEW p \in Paginas, Ordena(p, t)
        PROVE  (UmaTela /\ DialogoDaEscolhida)'
    <3>1. ToSet(lista[p]) \in SUBSET Sie[p]
      BY <1>2 DEF TypeOK, ToSet
    <3>2. PICK s : Troca(p, t, s)
      BY <2>7, <3>1, MostraTroca DEF Ordena
    <3> QED BY <1>2, <2>0, <2>7, <3>2, TrocaUmaTela DEF Ordena, NaPagina
  <2>8. ASSUME NEW t \in Abas, NEW p \in Paginas, NEW f \in Filtros[p], Busca(p, t, f)
        PROVE  (UmaTela /\ DialogoDaEscolhida)'
    <3>1. PICK s : Troca(p, t, s)
      BY <2>8, RetrieveTroca DEF Busca
    <3> QED BY <1>2, <2>0, <2>8, <3>1, TrocaUmaTela DEF Busca, NaPagina
  <2>9. ASSUME NEW t \in Abas, NEW p \in Paginas, NEW n \in DOMAIN tela[t].linhas,
               AbreDialogo(p, t, n)
        PROVE  (UmaTela /\ DialogoDaEscolhida)'
    <3>1. lista[p] \in {tela[t].linhas, <<>>} /\ tela[t].pagina = p
      BY <1>2, <2>9 DEF AbreDialogo, NaPagina, UmaTela
    <3>2. CASE n \in DOMAIN lista[p]
      <4>1. lista[p] = tela[t].linhas
        BY <3>1, <3>2
      <4>2. tela'[t] = Quadro(p, lista[p], tela[t].linhas[n], Dialogo(p, lista[p][n]),
                              tela[t].doMenu)
        BY <1>2, <2>9, <3>2 DEF AbreDialogo, TypeOK
      <4>3. UmaTela'
        BY <2>0, <2>9, <4>2 DEF AbreDialogo, UmaTela, Quadro
      <4>4. DialogoDaEscolhida'
        <5>1. /\ tela'[t].pagina = p /\ tela'[t].escolhida = lista[p][n]
              /\ tela'[t].dialogo = Dialogo(p, lista[p][n])
          BY <4>1, <4>2 DEF Quadro
        <5> QED BY <2>0, <5>1 DEF DialogoDaEscolhida
      <4> QED BY <4>3, <4>4
    <3>3. CASE n \notin DOMAIN lista[p]
      <4>1. tela'[t] = NaTela(p, lista[p], tela[t].doMenu)
        BY <1>2, <2>9, <3>3 DEF AbreDialogo, TypeOK
      <4> QED BY <2>0, <2>9, <4>1
              DEF AbreDialogo, UmaTela, DialogoDaEscolhida, NaTela, Quadro
    <3> QED BY <3>2, <3>3
  <2>10. CASE UNCHANGED vars
    BY <1>2, <2>10 DEF vars, UmaTela, DialogoDaEscolhida
  <2> QED BY <1>2, <2>1, <2>2, <2>3, <2>4, <2>5, <2>6, <2>7, <2>8, <2>9, <2>10 DEF Next
<1> QED BY <1>1, <1>2, Tipos, PTL DEF Spec
-----------------------------------------------------------------------------
(* The answers of the searches *)

\* The forms as the pages send them: fields that are typed are texts, the others
\* a version, a term or a year, or null; every text starts with itself and has
\* in it what it starts with; and no version is found by the label of another
\* (VersaoCursoLabelConverter), without which the search is for another version.
FormasCertas ==
    /\ \A x : Comeca(x, x)
    /\ \A x, y : Comeca(x, y) => Traz(x, y)
    /\ \A v, w \in Sie.cursos : Acha(v.curso, w.curso) /\ Acha(v.versao, w.versao) => v = w
    /\ Vazio \notin Sie.cursos
    /\ \A f \in Filtros.cursos :
          /\ f = [nome |-> f.nome, sigla |-> f.sigla, versao |-> f.versao]
          /\ Nulo \notin {f.nome, f.sigla, f.versao}
    /\ \A f \in Filtros.alunos :
          /\ f = [nome |-> f.nome, matr |-> f.matr, cpf |-> f.cpf, versao |-> f.versao]
          /\ Nulo \notin {f.nome, f.matr, f.cpf} /\ f.versao \in Sie.cursos \cup {Nulo}
    /\ \A f \in Filtros.professores :
          f = [nome |-> f.nome, matr |-> f.matr] /\ Nulo \notin {f.nome, f.matr}
    /\ \A f \in Filtros.turmas :
          /\ f = [nome |-> f.nome, disc |-> f.disc, turma |-> f.turma,
                  semestre |-> f.semestre, ano |-> f.ano, versao |-> f.versao]
          /\ Nulo \notin {f.nome, f.disc, f.turma} /\ Vazio \notin {f.semestre, f.ano}
          /\ f.versao \in Sie.cursos \cup {Nulo}
    /\ \A f \in Filtros.inscricoes :
          /\ f = [nome |-> f.nome, disc |-> f.disc, turma |-> f.turma,
                  aluno |-> f.aluno, matr |-> f.matr]
          /\ Nulo \notin {f.nome, f.disc, f.turma, f.aluno, f.matr}

\* An order of a finite set has all its elements.
LEMMA OrdensCompletas ==
    ASSUME NEW S, IsFiniteSet(S), NEW s \in SetToSeqs(S)
    PROVE  ToSet(s) = S
<1> DEFINE D == 1..Cardinality(S)
<1>1. Cardinality(S) \in Nat
  BY FS_CardinalityType
<1>2. IsFiniteSet(D) /\ Cardinality(D) = Cardinality(S)
  BY <1>1, FS_Interval
<1>3. s \in [D -> S] /\ \A i, j \in D : i # j => s[i] # s[j]
  BY DEF SetToSeqs
<1>4. s \in Injection(D, S)
  BY <1>3 DEF Injection, IsInjective
<1>5. s \in Surjection(D, S)
  BY <1>2, <1>4, FS_Injection
<1> QED BY <1>3, <1>5 DEF Surjection, ToSet

\* A field that is typed, and one that is chosen.
LEMMA CampoDigitado ==
    ASSUME FormasCertas, NEW p, NEW c, NEW v, NEW y, v # Nulo,
           c \notin {"ano", "semestre", "optativa"}, c = "versao" => p = "cursos",
           ~(p = "cursos" /\ c = "nome")
    PROVE  Concorda(p, c, v, y) <=> Acha(v, y)
BY DEF Concorda, Acha, FormasCertas

LEMMA CampoEscolhido ==
    ASSUME NEW p, NEW c, NEW v, NEW y, p # "cursos", v = Vazio => v = Nulo,
           c \in {"ano", "semestre", "versao"}
    PROVE  Concorda(p, c, v, y) <=> Igual(v, y)
BY DEF Concorda, Igual

LEMMA CursosPedidos ==
    ASSUME FormasCertas, NEW f \in Filtros.cursos
    PROVE  VersoesDoFiltro(f, CursosDe("cursos", sessao)) = Pedidos("cursos", f)
<1>1. /\ f = [nome |-> f.nome, sigla |-> f.sigla, versao |-> f.versao]
      /\ Nulo \notin {f.nome, f.sigla, f.versao}
  BY DEF FormasCertas
<1>2. DOMAIN f = {"nome", "sigla", "versao"}
  BY <1>1
<1>3. ASSUME NEW x \in Sie.cursos
      PROVE  x \in VersoesDoFiltro(f, CursosDe("cursos", sessao)) <=> x \in Pedidos("cursos", f)
  <2>1. Rotulos("cursos", x) = [nome |-> x.nome, sigla |-> x.curso, versao |-> x.versao]
    BY DEF Rotulos
  <2>2. Concorda("cursos", "nome", f.nome, x.nome) <=> f.nome = Vazio \/ Traz(f.nome, x.nome)
    BY <1>1 DEF Concorda, FormasCertas
  <2>3. Concorda("cursos", "sigla", f.sigla, x.curso) <=> Acha(f.sigla, x.curso)
    BY <1>1, CampoDigitado
  <2>4. Concorda("cursos", "versao", f.versao, x.versao) <=> Acha(f.versao, x.versao)
    BY <1>1, CampoDigitado
  <2>5. Permitido("cursos", x, sessao) <=> Dentro(x.curso, CursosDe("cursos", sessao))
    BY DEF Permitido, CursosDoObjeto, Dentro
  <2>6. (\A c \in DOMAIN f : Concorda("cursos", c, f[c], Rotulos("cursos", x)[c]))
          <=> /\ Concorda("cursos", "nome", f.nome, x.nome)
              /\ Concorda("cursos", "sigla", f.sigla, x.curso)
              /\ Concorda("cursos", "versao", f.versao, x.versao)
    BY <1>2, <2>1
  <2> QED BY <2>2, <2>3, <2>4, <2>5, <2>6 DEF VersoesDoFiltro, Pedidos
<1> QED BY <1>3 DEF VersoesDoFiltro, Pedidos

LEMMA AlunosPedidos ==
    ASSUME FormasCertas, NEW f \in Filtros.alunos
    PROVE  AlunosDoFiltro(f, CursosDe("alunos", sessao))
              = Pedidos("alunos", f)
<1>1. DOMAIN f = {"nome", "matr", "cpf", "versao"}
  <2>1. f = [nome |-> f.nome, matr |-> f.matr, cpf |-> f.cpf, versao |-> f.versao]
    BY DEF FormasCertas
  <2> QED BY <2>1
<1>2. Nulo \notin {f.nome, f.matr, f.cpf}
  BY DEF FormasCertas
<1>3. \A v \in {f.versao} : v = Vazio => v = Nulo
  BY DEF FormasCertas
<1>4. ASSUME NEW x \in Sie.alunos
      PROVE  x \in AlunosDoFiltro(f, CursosDe("alunos", sessao))
               <=> x \in Pedidos("alunos", f)
  <2> DEFINE y == Rotulos("alunos", x)
  <2>1. y = [nome |-> x.nome, matr |-> x.matr, cpf |-> x.cpf, versao |-> x.versao]
    BY DEF Rotulos
  <2>2. /\ Concorda("alunos", "nome", f.nome, y.nome) <=> Acha(f.nome, y.nome)
        /\ Concorda("alunos", "matr", f.matr, y.matr) <=> Acha(f.matr, y.matr)
        /\ Concorda("alunos", "cpf", f.cpf, y.cpf) <=> Acha(f.cpf, y.cpf)
    BY <1>2, CampoDigitado
  <2>3. /\ Concorda("alunos", "versao", f.versao, y.versao) <=> Igual(f.versao, y.versao)
    BY <1>3, CampoEscolhido
  <2>4. Permitido("alunos", x, sessao) <=>
           Dentro(x.versao.curso, CursosDe("alunos", sessao))
    BY DEF Permitido, CursosDoObjeto, Dentro
  <2>5. (\A c \in DOMAIN f : Concorda("alunos", c, f[c], y[c])) <=>
           /\ Concorda("alunos", "nome", f.nome, y.nome)
           /\ Concorda("alunos", "matr", f.matr, y.matr)
           /\ Concorda("alunos", "cpf", f.cpf, y.cpf)
           /\ Concorda("alunos", "versao", f.versao, y.versao)
    BY <1>1
  <2> QED BY <2>1, <2>2, <2>3, <2>4, <2>5 DEF AlunosDoFiltro, Pedidos
<1> QED BY <1>4 DEF AlunosDoFiltro, Pedidos

LEMMA ProfessoresPedidos ==
    ASSUME FormasCertas, NEW f \in Filtros.professores
    PROVE  ProfessoresDoFiltro(f, CursosDe("professores", sessao))
              = Pedidos("professores", f)
<1>1. DOMAIN f = {"nome", "matr"}
  <2>1. f = [nome |-> f.nome, matr |-> f.matr]
    BY DEF FormasCertas
  <2> QED BY <2>1
<1>2. Nulo \notin {f.nome, f.matr}
  BY DEF FormasCertas
<1>3. ASSUME NEW x \in Sie.professores
      PROVE  x \in ProfessoresDoFiltro(f, CursosDe("professores", sessao))
               <=> x \in Pedidos("professores", f)
  <2> DEFINE y == Rotulos("professores", x)
  <2>1. y = [nome |-> x.nome, matr |-> x.matr]
    BY DEF Rotulos
  <2>2. /\ Concorda("professores", "nome", f.nome, y.nome) <=> Acha(f.nome, y.nome)
        /\ Concorda("professores", "matr", f.matr, y.matr) <=> Acha(f.matr, y.matr)
    BY <1>2, CampoDigitado
  <2>3. Permitido("professores", x, sessao) <=>
           \/ CursosDe("professores", sessao) = {}
           \/ x.cursos \cap CursosDe("professores", sessao) # {}
    BY DEF Permitido, CursosDoObjeto, Dentro
  <2>4. (\A c \in DOMAIN f : Concorda("professores", c, f[c], y[c])) <=>
           /\ Concorda("professores", "nome", f.nome, y.nome)
           /\ Concorda("professores", "matr", f.matr, y.matr)
    BY <1>1
  <2> QED BY <2>1, <2>2, <2>3, <2>4 DEF ProfessoresDoFiltro, Pedidos
<1> QED BY <1>3 DEF ProfessoresDoFiltro, Pedidos

LEMMA TurmasPedidas ==
    ASSUME FormasCertas, NEW f \in Filtros.turmas,
           CursosDe("turmas", sessao) = {}
    PROVE  TurmasDoFiltro(f, {}) = Pedidos("turmas", f)
<1>1. DOMAIN f = {"nome", "disc", "turma", "semestre", "ano", "versao"}
  <2>1. f = [nome |-> f.nome, disc |-> f.disc, turma |-> f.turma,
             semestre |-> f.semestre, ano |-> f.ano, versao |-> f.versao]
    BY DEF FormasCertas
  <2> QED BY <2>1
<1>2. Nulo \notin {f.nome, f.disc, f.turma}
  BY DEF FormasCertas
<1>3. \A v \in {f.semestre, f.ano, f.versao} : v = Vazio => v = Nulo
  BY DEF FormasCertas
<1>4. ASSUME NEW x \in Sie.turmas
      PROVE  x \in TurmasDoFiltro(f, {})
               <=> x \in Pedidos("turmas", f)
  <2> DEFINE y == Rotulos("turmas", x)
  <2>1. y = [nome |-> x.disciplina.nome, disc |-> x.disciplina.codigo, turma |-> x.codigo,
             semestre |-> x.semestre, ano |-> x.ano, versao |-> x.disciplina.versao]
    BY DEF Rotulos
  <2>2. /\ Concorda("turmas", "nome", f.nome, y.nome) <=> Acha(f.nome, y.nome)
        /\ Concorda("turmas", "disc", f.disc, y.disc) <=> Acha(f.disc, y.disc)
        /\ Concorda("turmas", "turma", f.turma, y.turma) <=> Acha(f.turma, y.turma)
    BY <1>2, CampoDigitado
  <2>3. /\ Concorda("turmas", "semestre", f.semestre, y.semestre) <=> Igual(f.semestre, y.semestre)
        /\ Concorda("turmas", "ano", f.ano, y.ano) <=> Igual(f.ano, y.ano)
        /\ Concorda("turmas", "versao", f.versao, y.versao) <=> Igual(f.versao, y.versao)
    BY <1>3, CampoEscolhido
  <2>4. Permitido("turmas", x, sessao) <=>
           Dentro(x.disciplina.versao.curso, {})
    BY DEF Permitido, CursosDoObjeto, Dentro
  <2>5. (\A c \in DOMAIN f : Concorda("turmas", c, f[c], y[c])) <=>
           /\ Concorda("turmas", "nome", f.nome, y.nome)
           /\ Concorda("turmas", "disc", f.disc, y.disc)
           /\ Concorda("turmas", "turma", f.turma, y.turma)
           /\ Concorda("turmas", "semestre", f.semestre, y.semestre)
           /\ Concorda("turmas", "ano", f.ano, y.ano)
           /\ Concorda("turmas", "versao", f.versao, y.versao)
    BY <1>1
  <2> QED BY <2>1, <2>2, <2>3, <2>4, <2>5 DEF TurmasDoFiltro, Pedidos
<1> QED BY <1>4 DEF TurmasDoFiltro, Pedidos

LEMMA InscricoesPedidas ==
    ASSUME FormasCertas, NEW f \in Filtros.inscricoes
    PROVE  InscricoesDoFiltro(f, CursosDe("inscricoes", sessao))
              = Pedidos("inscricoes", f)
<1>1. DOMAIN f = {"nome", "disc", "turma", "aluno", "matr"}
  <2>1. f = [nome |-> f.nome, disc |-> f.disc, turma |-> f.turma,
             aluno |-> f.aluno, matr |-> f.matr]
    BY DEF FormasCertas
  <2> QED BY <2>1
<1>2. Nulo \notin {f.nome, f.disc, f.turma, f.aluno, f.matr}
  BY DEF FormasCertas
<1>3. ASSUME NEW x \in Sie.inscricoes
      PROVE  x \in InscricoesDoFiltro(f, CursosDe("inscricoes", sessao))
               <=> x \in Pedidos("inscricoes", f)
  <2> DEFINE y == Rotulos("inscricoes", x)
  <2>1. y = [nome |-> x.turma.disciplina.nome, disc |-> x.turma.disciplina.codigo,
             turma |-> x.turma.codigo, aluno |-> x.aluno.nome, matr |-> x.aluno.matr]
    BY DEF Rotulos
  <2>2. /\ Concorda("inscricoes", "nome", f.nome, y.nome) <=> Acha(f.nome, y.nome)
        /\ Concorda("inscricoes", "disc", f.disc, y.disc) <=> Acha(f.disc, y.disc)
        /\ Concorda("inscricoes", "turma", f.turma, y.turma) <=> Acha(f.turma, y.turma)
        /\ Concorda("inscricoes", "aluno", f.aluno, y.aluno) <=> Acha(f.aluno, y.aluno)
        /\ Concorda("inscricoes", "matr", f.matr, y.matr) <=> Acha(f.matr, y.matr)
    BY <1>2, CampoDigitado
  <2>3. Permitido("inscricoes", x, sessao) <=>
           Dentro(x.turma.disciplina.versao.curso, CursosDe("inscricoes", sessao))
    BY DEF Permitido, CursosDoObjeto, Dentro
  <2>4. (\A c \in DOMAIN f : Concorda("inscricoes", c, f[c], y[c])) <=>
           /\ Concorda("inscricoes", "nome", f.nome, y.nome)
           /\ Concorda("inscricoes", "disc", f.disc, y.disc)
           /\ Concorda("inscricoes", "turma", f.turma, y.turma)
           /\ Concorda("inscricoes", "aluno", f.aluno, y.aluno)
           /\ Concorda("inscricoes", "matr", f.matr, y.matr)
    BY <1>1
  <2> QED BY <2>1, <2>2, <2>3, <2>4 DEF InscricoesDoFiltro, Pedidos
<1> QED BY <1>3 DEF InscricoesDoFiltro, Pedidos

LEMMA FormaLida ==
    ASSUME FormasCertas, NEW p \in {"alunos", "turmas"}, NEW f \in Filtros[p]
    PROVE  Lidos(p, f) = {f}
<1>1. f.versao \in Sie.cursos \cup {Nulo} /\ [f EXCEPT !.versao = f.versao] = f
  <2>1. CASE p = "alunos"
    <3>1. f = [nome |-> f.nome, matr |-> f.matr, cpf |-> f.cpf, versao |-> f.versao]
      BY <2>1 DEF FormasCertas
    <3>2. f.versao \in Sie.cursos \cup {Nulo}
      BY <2>1 DEF FormasCertas
    <3> QED BY <3>1, <3>2
  <2>2. CASE p = "turmas"
    <3>1. f = [nome |-> f.nome, disc |-> f.disc, turma |-> f.turma,
               semestre |-> f.semestre, ano |-> f.ano, versao |-> f.versao]
      BY <2>2 DEF FormasCertas
    <3>2. f.versao \in Sie.cursos \cup {Nulo}
      BY <2>2 DEF FormasCertas
    <3> QED BY <3>1, <3>2
  <2> QED BY <2>1, <2>2
<1>2. ASSUME NEW v \in Sie.cursos
      PROVE  Convertidas(v) = {v}
  <2>1. v # Nulo
    BY ConsultaAssumption DEF Paginas
  <2>2. \A w : w \in Convertidas(v) <=>
           w \in Sie.cursos /\ Acha(v.curso, w.curso) /\ Acha(v.versao, w.versao)
    BY <2>1 DEF Convertidas, VersoesDoFiltro, Dentro
  <2>3. Acha(v.curso, v.curso) /\ Acha(v.versao, v.versao)
    BY DEF FormasCertas, Acha
  <2>4. \A w \in Sie.cursos : Acha(v.curso, w.curso) /\ Acha(v.versao, w.versao) => v = w
    BY DEF FormasCertas
  <2> QED BY <2>2, <2>3, <2>4
<1>3. Convertidas(f.versao) = {f.versao}
  BY <1>1, <1>2 DEF Convertidas
<1> QED BY <1>1, <1>3 DEF Lidos

\* The table shows every object it is drawn with.
LEMMA MostraTodos ==
    ASSUME TypeOK, NEW p \in Paginas, NEW t \in Abas, NEW S \in SUBSET Sie[p],
           Mostra(p, t, S)
    PROVE  ToSet(tela'[t].linhas) = S
<1>1. PICK s \in SetToSeqs(S) : tela' = [tela EXCEPT ![t] = NaTela(p, s, @.doMenu)]
  BY DEF Mostra
<1>2. IsFiniteSet(S)
  BY ConsultaAssumption, FS_Subset
<1>3. ToSet(s) = S
  BY <1>2, OrdensCompletas
<1>4. tela'[t].linhas = s
  BY <1>1 DEF TypeOK, NaTela, Quadro
<1> QED BY <1>3, <1>4

\* A search from a page of the menu asks for the courses of the user.
LEMMA BuscaAtendida ==
    ASSUME TypeOK, DoLogin, FormasCertas,
           NEW p \in {"cursos", "alunos", "professores", "inscricoes", "turmas"},
           p = "turmas" => CursosDe("turmas", sessao) = {},
           NEW t \in Abas, NEW f \in Filtros[p], tela[t].doMenu, Busca(p, t, f)
    PROVE  ToSet(tela'[t].linhas) = Pedidos(p, f)
<1>1. p \in Paginas /\ tela[t].pagina = p
  BY DEF Busca, NaPagina, Paginas
<1>2. Dono(p) = sessao
  BY <1>1 DEF DoLogin, Dono
<1>3. Lidos(p, f) = {f}
  BY FormaLida DEF Lidos
<1>4. Retrieve(p, t, f)
  BY <1>3 DEF Busca
<1>5. ASSUME Mostra(p, t, Pedidos(p, f))
      PROVE  ToSet(tela'[t].linhas) = Pedidos(p, f)
  <2>1. Pedidos(p, f) \in SUBSET Sie[p]
    BY DEF Pedidos
  <2> QED BY <1>1, <1>5, <2>1, MostraTodos
<1>6. CASE p = "cursos"
  BY <1>2, <1>4, <1>5, <1>6, CursosPedidos DEF Retrieve, RetrieveCursos
<1>7. CASE p = "alunos"
  BY <1>2, <1>4, <1>5, <1>7, AlunosPedidos DEF Retrieve, RetrieveAlunos
<1>8. CASE p = "professores"
  BY <1>2, <1>4, <1>5, <1>8, ProfessoresPedidos DEF Retrieve, RetrieveProfessores
<1>9. CASE p = "inscricoes"
  BY <1>2, <1>4, <1>5, <1>9, InscricoesPedidas DEF Retrieve, RetrieveInscricoes
<1>10. CASE p = "turmas"
  BY <1>2, <1>4, <1>5, <1>10, TurmasPedidas DEF Retrieve, RetrieveTurmas
<1> QED BY <1>6, <1>7, <1>8, <1>9, <1>10

\* With any data, users, logins and forms, a search from a page of the menu shows
\* all the objects of the user's courses that agree with the form, and no other
\* (retrieve() of the beans and the filters of the DAOs).
THEOREM AtendeAsBuscas == FormasCertas => (Spec => BuscasAtendidas)
<1> SUFFICES ASSUME FormasCertas
             PROVE  Spec => BuscasAtendidas
  OBVIOUS
<1> DEFINE Atende ==
        /\ \A p \in {"cursos", "alunos", "professores", "inscricoes"} : Atendida(p)
        /\ CursosDe("turmas", sessao) = {} => Atendida("turmas")
<1>1. ASSUME TypeOK, DoLogin
      PROVE  Atende
  BY <1>1, BuscaAtendida DEF Atendida
<1>2. ASSUME TypeOK, DoLogin
      PROVE  [Atende]_vars
  BY <1>1, <1>2
<1> QED BY <1>2, Tipos, DoLoginSempre, PTL DEF BuscasAtendidas

=============================================================================
