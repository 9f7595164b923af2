----------------------------- MODULE Importacao -----------------------------
(***************************************************************************)
(* What the application knows of the SIE: the spreadsheets that the DAOs   *)
(* read, each in its init(), when the application starts.                  *)
(*                                                                         *)
(* Spring runs one init() at a time, after those of the DAOs it is         *)
(* injected with; listFiles() gives the files of a folder in any order.    *)
(* One row is one step.  A cell is a value, and Nulo when it is empty;     *)
(* names are left out, and a class is its code, year and semester at once. *)
(***************************************************************************)
EXTENDS Integers, Sequences

CONSTANTS
    Conteudos,       \* what the three folders may hold when a server starts
    Id(_, _),        \* hashCode() of a key: the loader and the key
    Comeca(_, _),    \* startsWith(), once case and accents are gone
    Ponto(_),        \* replaceAll("/", ".")
    Vazia,           \* a row with no cells
    Ilegivel,        \* a row with a cell of the wrong type
    Nulo             \* Java's null, and a cell without a value

\* One for each class XDaoImpl.
Carregadores == {"curso", "versao", "disciplina", "professor", "turma", "aluno",
                 "inscricao"}

\* Mutant: the classes are not read after the professors.
DependeSemProfessor == [curso      |-> {},
                        versao     |-> {"curso"},
                        disciplina |-> {"versao"},
                        professor  |-> {"curso"},
                        turma      |-> {"disciplina"},
                        aluno      |-> {"versao"},
                        inscricao  |-> {"aluno", "turma"}]

\* Mutant: the professors are given the DAO of classes, to count them.
DependeCircular == [curso      |-> {},
                    versao     |-> {"curso"},
                    disciplina |-> {"versao"},
                    professor  |-> {"curso", "turma"},
                    turma      |-> {"disciplina", "professor"},
                    aluno      |-> {"versao"},
                    inscricao  |-> {"aluno", "turma"}]

\* The DAOs injected in each DAO.
Depende == [curso      |-> {},
            versao     |-> {"curso"},
            disciplina |-> {"versao"},
            professor  |-> {"curso"},
            turma      |-> {"disciplina", "professor"},
            aluno      |-> {"versao"},
            inscricao  |-> {"aluno", "turma"}]

\* The folder each one reads: a set of files, which are sequences of rows.
Pasta == [curso      |-> "curriculos",
          versao     |-> "curriculos",
          disciplina |-> "curriculos",
          professor  |-> "ofertas",
          turma      |-> "ofertas",
          aluno      |-> "historicos",
          inscricao  |-> "historicos"]

ASSUME ImportacaoAssumption ==
    /\ Nulo \notin Conteudos /\ Nulo \notin Carregadores /\ Vazia # Ilegivel
    /\ \A p \in Conteudos, l \in Carregadores :
          \A f \in p[Pasta[l]] : f \in Seq({ f[n] : n \in DOMAIN f })

VARIABLES
    planilhas,  \* what the folders hold; Nulo while the server is stopped
    prontos,    \* the loaders that ended
    atual,      \* the loader that is running, or Nulo
    restam,     \* the files it did not open yet
    linhas,     \* the rows it did not read yet of the file it opened
    porId,      \* what its map by id holds, for each loader
    porChave,   \* the same of the map by sigla, codigo or matricula
    leciona,    \* the pairs <<professor, course>> of the sets of courses
    falhou      \* an init() threw IllegalStateException: the server is down

vars == <<planilhas, prontos, atual, restam, linhas, porId, porChave, leciona, falhou>>

Init ==
    /\ planilhas = Nulo
    /\ prontos = {} /\ atual = Nulo /\ restam = {} /\ linhas = <<>>
    /\ porId = [l \in Carregadores |-> {}]
    /\ porChave = [l \in Carregadores |-> {}]
    /\ leciona = {}
    /\ falhou = FALSE

-----------------------------------------------------------------------------
(* The maps *)

\* The keys a map holds.
Chaves(S) == { x.chave : x \in S }

\* retrieveAll(): the values of the map by id.
Todos(l) == porId[l]

\* Two keys with one id share a place in a map by id.
MesmoId(l, S, k) == { x \in S : Id(l, x.chave) = Id(l, k) }

\* Both maps, of the entities that have a key: the id is not looked at.
PoeNosDois(l, e) ==
    /\ porId' = [porId EXCEPT ![l] = (@ \ MesmoId(l, @, e.chave)) \cup {e}]
    /\ porChave' = [porChave EXCEPT ![l] = @ \cup {e}]

\* Mutant: put() without asking containsKey().
PoeSempre(l, e) ==
    /\ porId' = [porId EXCEPT ![l] = (@ \ MesmoId(l, @, e.chave)) \cup {e}]
    /\ UNCHANGED porChave

\* The map by id, of the others: an id that is there stays.
PoeSeNovo(l, e) ==
    /\ porId' = [porId EXCEPT ![l] =
                     IF MesmoId(l, @, e.chave) = {} THEN @ \cup {e} ELSE @]
    /\ UNCHANGED porChave

Ignora == UNCHANGED <<porId, porChave, leciona>>

\* size() == 1
UmSo(S) == \E x \in S : S = {x}

\* validate()
Valida(celulas) == Nulo \notin celulas

\* retrieveByVersaoCursoFilter("", sigla, versao)
Versoes(sigla, versao) ==
    { v \in Todos("versao") : Comeca(v.curso, sigla) /\ Comeca(v.chave[1], versao) }

\* retrieveByTurmaFilterExactCodigo(): without a subject, of any subject.
Turmas(disc, turma) ==
    { t \in Todos("turma") : t.chave[2] = turma /\ disc \in {t.chave[1], Nulo} }

-----------------------------------------------------------------------------
(* One row, for each loader *)

LeCurso(r) ==
    IF Valida({r.curso}) /\ r.curso \notin Chaves(porChave["curso"])
    THEN PoeNosDois("curso", [chave |-> r.curso]) /\ UNCHANGED leciona
    ELSE Ignora

\* The version is kept with points where the spreadsheet has slashes.
LeVersao(r) ==
    IF Valida({r.curso, r.versao}) /\ r.curso \in Chaves(Todos("curso"))
    THEN /\ PoeSeNovo("versao", [chave |-> <<Ponto(r.versao), r.curso>>, curso |-> r.curso])
         /\ UNCHANGED leciona
    ELSE Ignora

\* Mutant: the first answer is taken, however many there are.
ComVersaoQualquer(l, k, r) ==
    IF /\ Valida({k, r.curso, r.versao})
       /\ k \notin Chaves(porChave[l])
       /\ Versoes(r.curso, r.versao) # {}
    THEN /\ \E v \in Versoes(r.curso, r.versao) :
               PoeNosDois(l, [chave |-> k, versao |-> v.chave])
         /\ UNCHANGED leciona
    ELSE Ignora

\* The subject or the student k of a row belongs to the version that begins as
\* the row says, as it says it, if one and only one does; or else it is lost.
ComVersao(l, k, r) ==
    IF /\ Valida({k, r.curso, r.versao})
       /\ k \notin Chaves(porChave[l])
       /\ UmSo(Versoes(r.curso, r.versao))
    THEN /\ \E v \in Versoes(r.curso, r.versao) :
               PoeNosDois(l, [chave |-> k, versao |-> v.chave])
         /\ UNCHANGED leciona
    ELSE Ignora

LeDisciplina(r) == ComVersao("disciplina", r.disc, r)

LeAluno(r) == ComVersao("aluno", r.aluno, r)

\* A course nobody loaded is added to the professor as null.
LeProfessor(r) ==
    IF Valida({r.curso, r.prof})
    THEN /\ IF r.prof \in Chaves(porChave["professor"])
            THEN UNCHANGED <<porId, porChave>>
            ELSE PoeNosDois("professor", [chave |-> r.prof])
         /\ leciona' = leciona \cup
                {<<r.prof, IF r.curso \in Chaves(Todos("curso")) THEN r.curso ELSE Nulo>>}
    ELSE Ignora

\* Mutant: a professor who is not in the DAO of professors.
LeTurmaSemDocente(r) ==
    IF Valida({r.turma, r.disc}) /\ r.disc \in Chaves(porChave["disciplina"])
    THEN /\ PoeSeNovo("turma", [chave |-> <<r.disc, r.turma>>, prof |-> r.prof])
         /\ UNCHANGED leciona
    ELSE Ignora

LeTurma(r) ==
    IF Valida({r.turma, r.disc}) /\ r.disc \in Chaves(porChave["disciplina"])
    THEN /\ PoeSeNovo("turma",
                [chave |-> <<r.disc, r.turma>>,
                 prof  |-> IF r.prof \in Chaves(porChave["professor"]) THEN r.prof ELSE Nulo])
         /\ UNCHANGED leciona
    ELSE Ignora

\* Mutant: the classes of a row are asked for without its subject.
LeInscricaoSemDisciplina(r) ==
    IF /\ Valida({r.aluno, r.turma})
       /\ UmSo(Turmas(Nulo, r.turma))
       /\ r.aluno \in Chaves(porChave["aluno"])
    THEN /\ \E t \in Turmas(Nulo, r.turma) :
               PoeSeNovo("inscricao", [chave |-> <<r.aluno, t.chave>>])
         /\ UNCHANGED leciona
    ELSE Ignora

LeInscricao(r) ==
    IF /\ Valida({r.aluno, r.turma})
       /\ UmSo(Turmas(r.disc, r.turma))
       /\ r.aluno \in Chaves(porChave["aluno"])
    THEN /\ \E t \in Turmas(r.disc, r.turma) :
               PoeSeNovo("inscricao", [chave |-> <<r.aluno, t.chave>>])
         /\ UNCHANGED leciona
    ELSE Ignora

Le(l, r) ==
    \/ l = "curso" /\ LeCurso(r)
    \/ l = "versao" /\ LeVersao(r)
    \/ l = "disciplina" /\ LeDisciplina(r)
    \/ l = "professor" /\ LeProfessor(r)
    \/ l = "turma" /\ LeTurma(r)
    \/ l = "aluno" /\ LeAluno(r)
    \/ l = "inscricao" /\ LeInscricao(r)

-----------------------------------------------------------------------------
(* The start of the server *)

\* Spring builds a DAO whose dependencies are built.
Inicia(l) ==
    /\ planilhas # Nulo /\ ~falhou /\ atual = Nulo
    /\ l \notin prontos /\ Depende[l] \subseteq prontos
    /\ atual' = l
    /\ restam' = planilhas[Pasta[l]]
    /\ UNCHANGED <<planilhas, prontos, linhas, porId, porChave, leciona, falhou>>

\* The next file; its heading was read.
AbreArquivo(f) ==
    /\ ~falhou /\ atual # Nulo /\ linhas = <<>>
    /\ f # <<>>
    /\ restam' = restam \ {f}
    /\ linhas' = f
    /\ UNCHANGED <<planilhas, prontos, atual, porId, porChave, leciona, falhou>>

\* Mutant: the next row, and one that cannot be read is passed over.
LeLinhaPulando ==
    /\ ~falhou /\ linhas # <<>>
    /\ \/ Head(linhas) = Vazia /\ Pasta[atual] = "historicos" /\ Ignora
       \/ Head(linhas) = Ilegivel /\ Ignora
       \/ Head(linhas) \notin {Vazia, Ilegivel} /\ Le(atual, Head(linhas))
    /\ linhas' = Tail(linhas)
    /\ UNCHANGED <<planilhas, prontos, atual, restam, falhou>>

\* The next row.  Those of the students may be empty.
LeLinha ==
    /\ ~falhou /\ linhas # <<>>
    /\ \/ Head(linhas) = Vazia /\ Pasta[atual] = "historicos" /\ Ignora
       \/ Head(linhas) \notin {Vazia, Ilegivel} /\ Le(atual, Head(linhas))
    /\ linhas' = Tail(linhas)
    /\ UNCHANGED <<planilhas, prontos, atual, restam, falhou>>

Termina ==
    /\ ~falhou /\ atual # Nulo /\ linhas = <<>> /\ restam = {}
    /\ planilhas[Pasta[atual]] # {}
    /\ prontos' = prontos \cup {atual}
    /\ atual' = Nulo
    /\ UNCHANGED <<planilhas, restam, linhas, porId, porChave, leciona, falhou>>

\* IllegalStateException: an empty folder, a file with a heading alone, or a
\* row that cannot be read.
Aborta ==
    /\ ~falhou /\ atual # Nulo
    /\ \/ planilhas[Pasta[atual]] = {}
       \/ linhas = <<>> /\ <<>> \in restam
       \/ linhas # <<>> /\ Head(linhas) = Ilegivel
       \/ linhas # <<>> /\ Head(linhas) = Vazia /\ Pasta[atual] # "historicos"
    /\ falhou' = TRUE
    /\ UNCHANGED <<planilhas, prontos, atual, restam, linhas, porId, porChave, leciona>>

\* The server is started, with the spreadsheets of the day.
Liga ==
    /\ planilhas = Nulo
    /\ planilhas' \in Conteudos
    /\ UNCHANGED <<prontos, atual, restam, linhas, porId, porChave, leciona, falhou>>

\* It stops, and the maps with it.
Desliga ==
    /\ planilhas' = Nulo
    /\ prontos' = {} /\ atual' = Nulo /\ restam' = {} /\ linhas' = <<>>
    /\ porId' = [l \in Carregadores |-> {}]
    /\ porChave' = [l \in Carregadores |-> {}]
    /\ leciona' = {}
    /\ falhou' = FALSE

\* What the thread that starts the server does.
Passo ==
    \/ \E l \in Carregadores : Inicia(l)
    \/ \E f \in restam : AbreArquivo(f)
    \/ LeLinha \/ Termina \/ Aborta

Next == Passo \/ Liga \/ Desliga

Spec == Init /\ [][Next]_vars

\* That thread waits for nobody.  Nothing is assumed of who starts and stops
\* the server.
FairSpec == Spec /\ WF_vars(Passo)

-----------------------------------------------------------------------------
(* What the catalog promises, when no two keys have the same id *)

\* Every object the pages may be given refers to objects they may be given
\* too: the DAOs find each other's objects in maps of their own, and the
\* aspect SieOrmAspect finds them again by id (retrieveById of every DAO).
Referencias ==
    /\ \A v \in Todos("versao") : v.curso \in Chaves(Todos("curso"))
    /\ \A x \in Todos("disciplina") \cup Todos("aluno") :
          x.versao \in Chaves(Todos("versao"))
    /\ \A t \in Todos("turma") :
          /\ t.chave[1] \in Chaves(Todos("disciplina"))
          /\ t.prof \in Chaves(Todos("professor")) \cup {Nulo}
    /\ \A i \in Todos("inscricao") :
          /\ i.chave[1] \in Chaves(Todos("aluno"))
          /\ i.chave[2] \in Chaves(Todos("turma"))

\* The rows of a folder.
Linhas(pasta) == (UNION { { f[n] : n \in 1..Len(f) } : f \in planilhas[pasta] }) \ {Vazia}

\* The versions of courses in the spreadsheets.
Escritas == { <<Ponto(r.versao), r.curso>> :
                r \in { r \in Linhas("curriculos") : Valida({r.versao, r.curso}) } }

\* The version a row is of, and those that begin with what its cells say.
Propria(r) == <<Ponto(r.versao), r.curso>>
Parece(v, r) == Comeca(v[2], r.curso) /\ Comeca(v[1], r.versao)

\* A row that can be taken in one way: its version is in the spreadsheets and
\* is written without slashes, and no other begins as it does.
Clara(r) ==
    /\ Valida({r.curso, r.versao}) /\ Ponto(r.versao) = r.versao
    /\ Propria(r) \in Escritas
    /\ \A v \in Escritas : Parece(v, r) => v = Propria(r)

CursosCertos ==
    /\ Chaves(Todos("curso")) = { r.curso : r \in Linhas("curriculos") } \ {Nulo}
    /\ Chaves(Todos("versao")) = Escritas

\* The column of the rows of l has all of the clear ones in the map, and who is
\* in the map is in the version of a row of his, or, when the spreadsheets do
\* not have that version, in one that begins with it.
DeVersaoCerta(l, coluna) ==
    /\ \A r \in Linhas(Pasta[l]) :
          Clara(r) /\ r[coluna] # Nulo => r[coluna] \in Chaves(Todos(l))
    /\ \A x \in Todos(l) : \E r \in Linhas(Pasta[l]) :
          /\ x.chave = r[coluna] /\ Valida({r[coluna], r.curso, r.versao})
          /\ IF Propria(r) \in Escritas THEN x.versao = Propria(r)
                                       ELSE x.versao \in Escritas /\ Parece(x.versao, r)

ProfessoresCertos ==
    leciona = { <<r.prof, IF r.curso \in Chaves(Todos("curso")) THEN r.curso ELSE Nulo>> :
                  r \in { r \in Linhas("ofertas") : Valida({r.prof, r.curso}) } }

TurmasCertas ==
    LET rs == { r \in Linhas("ofertas") :
                  Valida({r.turma}) /\ r.disc \in Chaves(Todos("disciplina")) } IN
    /\ Chaves(Todos("turma")) = { <<r.disc, r.turma>> : r \in rs }
    /\ \A t \in Todos("turma") :
          \E r \in rs :
             /\ <<r.disc, r.turma>> = t.chave
             /\ t.prof = IF r.prof \in Chaves(Todos("professor")) THEN r.prof ELSE Nulo

\* The classes a row of a student names: of any subject when it names none.
TurmasDe(r) == { k \in Chaves(Todos("turma")) : k[2] = r.turma /\ r.disc \in {k[1], Nulo} }

\* retrieveAll() gives every registration of a known student in a known class.
InscricoesCertas ==
    Chaves(Todos("inscricao")) =
        UNION { { <<r.aluno, k>> : k \in TurmasDe(r) } :
                r \in { r \in Linhas("historicos") :
                          r.aluno \in Chaves(Todos("aluno")) /\ UmSo(TurmasDe(r)) } }

\* A server that started knows, whatever the order in which the folders were
\* listed and the DAOs built, all courses and versions of the rows, every course
\* of a professor, the subjects and students of the clear rows, each under a
\* version of his own when there is it, all classes of the subjects it knows and
\* all registrations of those students in those classes, and nothing that no row
\* says (the init() of the seven DAOs).  It promises nothing of the subjects and
\* students of rows that are not clear, which the DAOs do drop.
Completo ==
    prontos = Carregadores =>
        /\ CursosCertos
        /\ DeVersaoCerta("disciplina", "disc") /\ DeVersaoCerta("aluno", "aluno")
        /\ ProfessoresCertos /\ TurmasCertas /\ InscricoesCertas

\* A row that can be read, and a folder that can be read to its end.
Legivel(r, pasta) == r # Ilegivel /\ (r = Vazia => pasta = "historicos")
Inteira(pasta) ==
    /\ planilhas[pasta] # {}
    /\ \A f \in planilhas[pasta] :
          f # <<>> /\ \A n \in 1..Len(f) : Legivel(f[n], pasta)

\* No DAO serves part of its folder: one that ended read all of it, and the
\* start is given up only for a folder that cannot be read (the exceptions of
\* the init(), and the order in which files and rows come to them).
TudoOuNada ==
    /\ \A l \in prontos : Inteira(Pasta[l])
    /\ falhou => ~Inteira(Pasta[atual])

\* What a DAO took from a row it never changes or drops for a later row, so
\* an object that was handed to another DAO is still the one in the map
\* (putting only what containsKey() does not find).
Permanece ==
    [][Desliga \/ \A l \in Carregadores : porId[l] \subseteq porId'[l]]_vars

\* The DAOs do not wait for each other in a circle: between two init(), while
\* some are to come, Spring finds one whose dependencies are built.
NinguemEspera ==
    planilhas # Nulo /\ atual = Nulo /\ prontos # Carregadores =>
        \E l \in Carregadores \ prontos : Depende[l] \subseteq prontos

\* A server that is started ends up ready or down, unless it is stopped: the
\* DAOs do not wait for each other, and every file and row is done with
\* (@PostConstruct of the DAOs, in the order Spring finds by itself).
PartidaTermina ==
    planilhas # Nulo ~> \/ prontos = Carregadores
                        \/ falhou
                        \/ planilhas = Nulo

\* "Recupera todos os objetos do tipo gerenciado pelo DAO" (_DaoSie): the
\* registration of a student in a class, when the rows of the student and of the
\* subject are clear, is given by retrieveAll() of the registrations.
TodasAsInscricoes ==
    prontos = Carregadores =>
        \A r \in Linhas("historicos"), o \in Linhas("ofertas"), c \in Linhas("curriculos") :
            /\ Clara(r) /\ Clara(c) /\ Valida({r.aluno, o.disc, o.turma})
            /\ c.disc = o.disc /\ r.disc = o.disc /\ r.turma = o.turma
            => <<r.aluno, <<o.disc, o.turma>>>> \in Chaves(Todos("inscricao"))

=============================================================================
