SPECIFICATION FairSpec
CONSTANTS
    Nulo = Nulo
    Vazia = Vazia
    Ilegivel = Ilegivel
    Id <- MCId
    Comeca <- MCComeca
    Ponto <- MCPonto
    Conteudos <- MCPlanilhas
INVARIANTS Referencias Completo TodasAsInscricoes TudoOuNada NinguemEspera
PROPERTIES Permanece PartidaTermina
