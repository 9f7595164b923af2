SPECIFICATION Spec
CONSTANTS
    Nulo = Nulo
    Vazia = Vazia
    Ilegivel = Ilegivel
    Id <- MCIdColide
    Comeca <- MCComeca
    Ponto <- MCPonto
    Conteudos <- MCFolhas
INVARIANT TodasAsInscricoes
