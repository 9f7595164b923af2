----------------------------- MODULE MCConsulta -----------------------------
(***************************************************************************)
(* Instances of Consulta for TLC: two courses, one object of each kind in   *)
(* each, and a second student in the first.                                *)
(***************************************************************************)
EXTENDS Consulta

\* "a" starts "ab".
MCComeca(x, y) == x = y \/ (x = "a" /\ y = "ab")

\* "ab" has "b" in it.
MCTraz(x, y) == MCComeca(x, y) \/ (x = "b" /\ y = "ab")

Administrador == [papeis |-> {"ADMIN"}, coordena |-> {}, leciona |-> {}]
Coordenador == [papeis |-> {"PROFESSOR", "COORDENADOR"}, coordena |-> {"A"}, leciona |-> {"B"}]
Professor == [papeis |-> {"PROFESSOR"}, coordena |-> {}, leciona |-> {"B"}]
SemCurso == [papeis |-> {"PROFESSOR"}, coordena |-> {}, leciona |-> {Nulo}]

MCUsuarios == {Administrador, Coordenador, Professor, SemCurso}

V1 == [curso |-> "A", nome |-> "ab", versao |-> "1"]
V2 == [curso |-> "B", nome |-> "b", versao |-> "2"]
V3 == [curso |-> "A", nome |-> "ab", versao |-> "2"]
A1 == [matr |-> "a1", nome |-> "ab", cpf |-> "1", versao |-> V1]
A2 == [matr |-> "a2", nome |-> "ab", cpf |-> "2", versao |-> V3]
A3 == [matr |-> "a3", nome |-> "a", cpf |-> "1", versao |-> V2]
P1 == [matr |-> "p1", nome |-> "ab", cursos |-> {"A", "B"}]
P2 == [matr |-> "p2", nome |-> "b", cursos |-> {"B"}]
P3 == [matr |-> "p3", nome |-> "a", cursos |-> {Nulo}]
D1 == [codigo |-> "d1", nome |-> "ab", periodo |-> "1", optativa |-> "1", versao |-> V1]
D2 == [codigo |-> "d2", nome |-> "b", periodo |-> "2", optativa |-> "2", versao |-> V2]
K1 == [codigo |-> "k", ano |-> 2017, semestre |-> 1, disciplina |-> D1]
K2 == [codigo |-> "k", ano |-> 2018, semestre |-> 1, disciplina |-> D2]

MCSie == [cursos |-> {V1, V2, V3}, alunos |-> {A1, A2, A3}, professores |-> {P1, P2, P3},
          disciplinas |-> {D1, D2}, turmas |-> {K1, K2},
          inscricoes |-> { [aluno |-> A1, turma |-> K1], [aluno |-> A1, turma |-> K2],
                           [aluno |-> A2, turma |-> K1], [aluno |-> A3, turma |-> K2] }]

\* Every field of every form, alone and combined.
FiltrosTodos ==
    [cursos |-> [nome : {Vazio, "a", "b"}, sigla : {Vazio, "A"}, versao : {Vazio, "2"}],
     alunos |-> [nome : {Vazio, "a"}, matr : {Vazio, "a1"}, cpf : {Vazio, "1"}, versao : {Nulo, V1}],
     professores |-> [nome : {Vazio, "a"}, matr : {Vazio, "p1", "p2"}],
     disciplinas |-> [nome : {Vazio, "a"}, codigo : {Vazio, "d2"}, periodo : {Vazio, "1"},
                      optativa : {Vazio, "2"}, versao : {Nulo, V2}],
     turmas |-> [nome : {Vazio, "a"}, disc : {Vazio, "d2"}, turma : {Vazio, "k"},
                 semestre : {Nulo, 1}, ano : {Nulo, 2018}, versao : {Nulo, V1}],
     inscricoes |-> [nome : {Vazio, "a"}, disc : {Vazio, "d1"}, turma : {Vazio, "k"},
                     aluno : {Vazio, "a"}, matr : {Vazio, "a1"}]]
=============================================================================
