SPECIFICATION Spec
CONSTANTS
    Nulo = Nulo
    s1 = s1
    s2 = s2
    a1 = a1
    a2 = a2
    Sessoes = {s1}
    Abas = {a1}
    SessaoDe <- MCUmaSessao
    Cursos = {1, 2}
    Professores = {1, 2}
    Textos = {"", "b"}
    Casa <- MCCasa
    MaxId = 2
    MaxFalhas = 0
PROPERTY RemoveOSelecionado
