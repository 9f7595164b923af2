SPECIFICATION FairSpec
CONSTANTS
    Nulo = Nulo
    Abas = {t1, t2}
    Alunos = {"a1"}
    Professores = {"p1"}
    Paginas <- MCPaginas
INVARIANTS TypeOK MenuAutorizado PaginaDoUsuario AvisoTemDestino
PROPERTIES RedirecionamentoAcaba AvisoAcaba NoMaximoDuas
