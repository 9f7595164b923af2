SPECIFICATION Spec
CONSTANTS
    Nulo = Nulo
    Fechado = Fechado
    s1 = s1
    s2 = s2
    a1 = a1
    a2 = a2
    Sala <- MCSala
    Sessoes = {s1}
    Abas = {a1, a2}
    SessaoDe <- MCUmaSessao
    Titulos = {"t"}
    TitulosLongos = {}
    Locais = {"A"}
    LocaisLongos = {}
    Dias = {1}
    Horas = {0, 1, 2}
    Registros <- MCHorarios
    MaxId = 2
    MaxFalhas = 0
PROPERTY SalvaOQueAbriu
