SPECIFICATION Spec
CONSTANTS
    Nulo = Nulo
    Fechado = Fechado
    s1 = s1
    s2 = s2
    a1 = a1
    a2 = a2
    Sala <- MCSala
    Sessoes = {s1, s2}
    Abas = {a1, a2}
    SessaoDe <- MCAbaPorSessao
    Titulos = {"t", "tt"}
    TitulosLongos = {"tt"}
    Locais = {"A", "AA"}
    LocaisLongos = {"AA"}
    Dias = {1, 2}
    Horas = {0, 1, 2, 3}
    Registros <- MCVariados
    MaxId = 2
    MaxFalhas = 1
PROPERTIES ImplementaCadastro SalvaOQueAbriu
    SobreposicaoExplicada DiaVencidoExplicado SoPorForaEnvelhece
SYMMETRY MCTroca
