SPECIFICATION Spec
CONSTANTS
    Nulo = Nulo
    Fechado = Fechado
    s1 = s1
    s2 = s2
    a1 = a1
    a2 = a2
    Registros <- MCFormularios
    Sessoes = {s1}
    Abas = {a1, a2}
    SessaoDe <- MCUmaSessao
    Turmas = {"c", "d"}
    Horas = {0, 1}
    MaxId = 2
    MaxFalhas = 1
INVARIANT DivergeSoRecusada
PROPERTIES ImplementaCadastro SoRecusaEnvelhece
