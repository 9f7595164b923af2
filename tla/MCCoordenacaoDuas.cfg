SPECIFICATION Spec
CONSTANTS
    Nulo = Nulo
    s1 = s1
    s2 = s2
    a1 = a1
    a2 = a2
    Sessoes = {s1, s2}
    Abas = {a1, a2}
    SessaoDe <- MCAbaPorSessao
    Cursos = {1}
    Professores = {1, 2}
    Textos = {"b"}
    Casa <- MCCasa
    MaxId = 2
    MaxFalhas = 1
INVARIANT TypeOK
PROPERTIES PersisteOEscolhido ImplementaCadastro
    RemoveDaGrade SoABuscaDesatualiza
SYMMETRY MCTroca
