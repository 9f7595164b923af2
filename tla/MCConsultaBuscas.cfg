SPECIFICATION Spec
CONSTANTS
    Vazio = Vazio
    Nulo = Nulo
    Atual = Atual
    Digitadas = {"disciplinas"}
    Abas = {a1}
    Usuarios <- MCUsuarios
    Sie <- MCSie
    Filtros <- FiltrosTodos
    Comeca <- MCComeca
    Traz <- MCTraz
INVARIANTS TypeOK DialogoDaEscolhida SoDosSeusCursos
PROPERTY BuscasAtendidas
