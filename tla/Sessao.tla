------------------------------- MODULE Sessao -------------------------------
(***************************************************************************)
(* One HTTP session of the SCA and the browser tabs that share it: login,  *)
(* logout, the filters every request goes through, the session attributes  *)
(* (SessionBean, the page beans, preRenderMessage) and the redirections.   *)
(* Sessions meet only in the database, of which a login reads one table.   *)
(*                                                                         *)
(* One HTTP request is one step.  A redirection is two: the answer, which  *)
(* leaves the tab going elsewhere, and the request the browser then sends. *)
(***************************************************************************)
CONSTANTS
    Abas,                 \* browser tabs
    Alunos, Professores,  \* usernames found in the SIE
    Paginas,              \* the pages of the menu that are visited
    Nulo                  \* Java's null

Usuarios == Alunos \cup Professores \cup {"admin"}

\* The permissions the modules provide.
DosCoordenadores == {"/sie/cursos.jsf", "/sie/alunos.jsf", "/sie/professores.jsf",
                     "/sie/inscricoes.jsf", "/sie/coordenacoes.jsf"}
DosProfessores == {"/sie/disciplinas.jsf", "/sie/turmas.jsf"}
DoSmr == {"/smr/seminario.jsf"}
DoMtr == {"/mtr/turmaMonitoria.jsf"}

\* provideRoles() of the modules.
Papeis == {"ADMIN", "ALUNO", "PROFESSOR", "COORDENADOR"}

\* Permission.supports(): the pages a role is given.
Supports(r) ==
    { p \in Paginas : \/ r = "ADMIN"
                      \/ r = "COORDENADOR" /\ p \notin DoSmr \cup DoMtr
                      \/ r = "PROFESSOR" /\ p \in DosProfessores }

\* The messages a filter leaves for the next page to show.
Avisos == {"NOT_AUTHENTICATED", "NOT_AUTHORIZED", "SESSION_EXPIRED", "ERRO"}

\* What a tab shows, or is redirected to.
Vistas == Paginas \cup {"index", "login"}

\* rolesMap: the user whose data each role carries, Nulo without the role.
SessionBeans == [usuario : Usuarios \cup {Nulo},
                 papeis  : [Papeis -> Usuarios \cup {Nulo}],
                 menu    : SUBSET Paginas]

\* The SessionBean a page bean was given when built: the one of the session,
\* or one that a logout has detached, which keeps the roles it had.
Vinculos == {"atual", "antigo"}

ASSUME SessaoAssumption ==
    /\ Paginas \subseteq DosCoordenadores \cup DosProfessores \cup DoSmr \cup DoMtr
    /\ "admin" \notin Alunos \cup Professores
    /\ Nulo \notin Usuarios \cup Vistas \cup Avisos \cup SessionBeans \cup Vinculos

VARIABLES
    coordenadores,  \* professors with a row in admin_coordenacao
    sessionBean,    \* the attribute of that name; Nulo when absent
    paginaBean,     \* for each page bean, its SessionBean; Nulo when absent
    aviso,          \* the attribute preRenderMessage; Nulo when absent
    aba             \* what each tab shows, and where it is being sent

vars == <<coordenadores, sessionBean, paginaBean, aviso, aba>>

\* menu: the links on the screen; vale: its view is still in the session; doMenu:
\* it was opened from the menu and nobody logged in or out since; indo: where it
\* is sent, and dentro: in an XMLHttpRequest.
TelasDeAba == [mostra : Vistas, menu : SUBSET Paginas,
               vale : BOOLEAN, doMenu : BOOLEAN,
               indo : {"index", "login", Nulo}, dentro : BOOLEAN]

TypeOK ==
    /\ coordenadores \subseteq Professores
    /\ sessionBean \in SessionBeans \cup {Nulo}
    /\ paginaBean \in [Paginas -> Vinculos \cup {Nulo}]
    /\ aviso \in Avisos \cup {Nulo}
    /\ aba \in [Abas -> TelasDeAba]

\* Mutant of NovoSessionBean: a session starts with a link to the login page.
NovoSessionBeanComLogin ==
    [usuario |-> Nulo, papeis |-> [r \in Papeis |-> Nulo], menu |-> {"login"}]

NovoSessionBean ==
    [usuario |-> Nulo, papeis |-> [r \in Papeis |-> Nulo], menu |-> {}]

\* The SessionBean a page finds: Spring builds one if the session has none.
SessionBeanAtual == IF sessionBean = Nulo THEN NovoSessionBean ELSE sessionBean

\* Each tab starts at the welcome file, login.jsf.
Init ==
    /\ coordenadores \in SUBSET Professores
    /\ sessionBean = NovoSessionBean
    /\ paginaBean = [p \in Paginas |-> Nulo]
    /\ aviso = Nulo
    /\ aba = [t \in Abas |-> [mostra |-> "login", menu |-> {},
                              vale |-> TRUE, doMenu |-> FALSE,
                              indo |-> Nulo, dentro |-> FALSE]]

-----------------------------------------------------------------------------
(* What a request may do *)

\* hasRole()
TemPapel(b, r) == b.papeis[r] # Nulo

\* LoginFilter, for a user that is not logged in.
SemUsuario(b) == b = Nulo \/ b.usuario = Nulo
Deslogado == SemUsuario(sessionBean)

\* LoginFilter, for one that is: some role has a rule for the address.
Autorizado(url) ==
    \/ url = "index"
    \/ \E r \in Papeis : TemPapel(sessionBean, r) /\ url \in Supports(r)

\* The address is let through.
Passa(url) == url = "login" \/ (~Deslogado /\ Autorizado(url))

\* Mutant of Mostra: the message is shown and not removed.
MostraSemRemover(t, url, b, doMenu) ==
    /\ sessionBean' = b
    /\ UNCHANGED aviso
    /\ aba' = [x \in Abas |->
          IF x = t
          THEN [mostra |-> url, vale |-> TRUE,
                indo |-> Nulo, dentro |-> FALSE,
                menu |-> IF url = "login" THEN {} ELSE b.menu,
                doMenu |-> x \in doMenu]
          ELSE [aba[x] EXCEPT !.doMenu = @ /\ x \in doMenu]]

\* The page is rendered in the tab with the SessionBean b; preRender() shows
\* the message that was waiting.  doMenu: the tabs that may count as opened from the menu.
Mostra(t, url, b, doMenu) ==
    /\ sessionBean' = b
    /\ aviso' = Nulo
    /\ aba' = [x \in Abas |->
          IF x = t
          THEN [mostra |-> url, vale |-> TRUE,
                indo |-> Nulo, dentro |-> FALSE,
                menu |-> IF url = "login" THEN {} ELSE b.menu,
                doMenu |-> x \in doMenu]
          ELSE [aba[x] EXCEPT !.doMenu = @ /\ x \in doMenu]]

\* The answer sends the tab, or the XMLHttpRequest, elsewhere and leaves a
\* message.
Redireciona(t, destino, m, xhr) ==
    /\ aba' = [aba EXCEPT ![t].indo = destino, ![t].dentro = xhr]
    /\ aviso' = m
    /\ UNCHANGED sessionBean

\* A page, or its bean, throws: LoginFilter catches it and sends the tab to the
\* index page, or to the login page when the session has no user by then.  The
\* session is left with the SessionBean b.
Erro(t, b, xhr, doMenu) ==
    /\ sessionBean' = b
    /\ aviso' = "ERRO"
    /\ aba' = [x \in Abas |->
          IF x = t
          THEN [aba[x] EXCEPT !.indo = IF SemUsuario(b) THEN "login" ELSE "index",
                              !.dentro = xhr,
                              !.doMenu = @ /\ x \in doMenu]
          ELSE [aba[x] EXCEPT !.doMenu = @ /\ x \in doMenu]]

\* The SessionBean a request leaves that throws before or after it is built.
SeConstruido == {sessionBean, SessionBeanAtual}

\* Mutant of Barra: everyone is sent to the index page.
BarraParaIndex(t, url, xhr) ==
    /\ ~Passa(url)
    /\ Redireciona(t, "index", "NOT_AUTHORIZED", xhr)
    /\ UNCHANGED <<coordenadores, paginaBean>>

\* LoginFilter turns the request away.
Barra(t, url, xhr) ==
    /\ ~Passa(url)
    /\ IF Deslogado THEN Redireciona(t, "login", "NOT_AUTHENTICATED", xhr)
                    ELSE Redireciona(t, "index", "NOT_AUTHORIZED", xhr)
    /\ UNCHANGED <<coordenadores, paginaBean>>

\* Mutant of DepoisDaLimpeza: the parameter is ignored.
SemLimpeza(refresh) == paginaBean

\* The page beans after WipeCacheFilter saw the parameter refresh, or not.
DepoisDaLimpeza(refresh) ==
    IF refresh THEN [p \in Paginas |-> Nulo] ELSE paginaBean

\* A page uses its bean, built on demand with the SessionBean of the moment.
ComBean(beans, url) ==
    [p \in Paginas |-> IF p = url /\ beans[p] = Nulo THEN "atual" ELSE beans[p]]

\* The page is rendered.
Abre(t, url, refresh) ==
    /\ Passa(url)
    /\ paginaBean' = ComBean(DepoisDaLimpeza(refresh), url)
    /\ Mostra(t, url, SessionBeanAtual, IF refresh THEN Abas ELSE Abas \ {t})
    /\ UNCHANGED coordenadores

\* The page throws, whichever it is: the index and login pages too.
Quebra(t, url, refresh) ==
    /\ Passa(url)
    /\ paginaBean' \in {DepoisDaLimpeza(refresh), ComBean(DepoisDaLimpeza(refresh), url)}
    /\ \E b \in SeConstruido : Erro(t, b, FALSE, Abas)
    /\ UNCHANGED coordenadores

Requisita(t, url, refresh) ==
    Abre(t, url, refresh) \/ Quebra(t, url, refresh) \/ Barra(t, url, FALSE)

-----------------------------------------------------------------------------
(* Requests of a tab, which sends one at a time *)

Livre(t) == aba[t].indo = Nulo

\* The browser follows a redirection.
Segue(t) ==
    /\ ~aba[t].dentro
    /\ \E url \in {"index", "login"} :
          aba[t].indo = url /\ Requisita(t, url, FALSE)

\* An XMLHttpRequest follows it: the destination takes the message, but the
\* tab goes on showing the page it had.
SegueDentro(t) ==
    /\ aba[t].dentro
    /\ \E url \in {"index", "login"} :
          /\ aba[t].indo = url
          /\ \/ Barra(t, url, TRUE)
             \/ /\ Passa(url)
                /\ sessionBean' = SessionBeanAtual
                /\ aviso' = Nulo
                /\ aba' = [aba EXCEPT ![t].indo = Nulo, ![t].dentro = FALSE]
                /\ UNCHANGED <<coordenadores, paginaBean>>
             \/ /\ Passa(url)
                /\ \E b \in SeConstruido : Erro(t, b, TRUE, Abas)
                /\ UNCHANGED <<coordenadores, paginaBean>>

\* A link of the menu, which ends in ?refresh=true, or the link of the title.
ClicaNoMenu(t) ==
    /\ Livre(t)
    /\ \/ \E p \in aba[t].menu : Requisita(t, p, TRUE)
       \/ Requisita(t, "index", FALSE)

\* An address typed by the user.
Digita(t) ==
    /\ Livre(t)
    /\ \E url \in Vistas : Requisita(t, url, FALSE)

\* The address of the file of a page: HideXhtmlFilter turns everyone away.
DigitaXhtml(t) ==
    /\ Livre(t)
    /\ Redireciona(t, "login", "NOT_AUTHORIZED", FALSE)
    /\ UNCHANGED <<coordenadores, paginaBean>>

\* The user operates the page shown, by an XMLHttpRequest.
Usa(t) ==
    /\ Livre(t)
    /\ aba[t].mostra \in Paginas
    /\ \/ Barra(t, aba[t].mostra, TRUE)
       \/ /\ Passa(aba[t].mostra)
          /\ aba[t].vale
          /\ paginaBean' = ComBean(paginaBean, aba[t].mostra)
          /\ UNCHANGED <<coordenadores, sessionBean, aviso, aba>>
       \/ /\ Passa(aba[t].mostra)
          /\ aba[t].vale
          /\ paginaBean' \in {paginaBean, ComBean(paginaBean, aba[t].mostra)}
          /\ Erro(t, sessionBean, TRUE, Abas)
          /\ UNCHANGED coordenadores

\* A form posted from a view the session does not have any more, by the browser
\* or, from a page of the menu, by an XMLHttpRequest.
PostaExpirado(t) ==
    /\ Livre(t)
    /\ ~aba[t].vale
    /\ \E xhr \in BOOLEAN :
          /\ xhr => aba[t].mostra \in Paginas
          /\ \/ Barra(t, aba[t].mostra, xhr)
             \/ /\ Passa(aba[t].mostra)
                /\ Redireciona(t, "login", "SESSION_EXPIRED", xhr)
                /\ UNCHANGED <<coordenadores, paginaBean>>

-----------------------------------------------------------------------------
(* login() and logout() *)

\* doLogin() of every module: the roles of a user.
DoLogin(u) ==
    { r \in Papeis : \/ r = "ADMIN" /\ u = "admin"
                     \/ r = "ALUNO" /\ u \in Alunos
                     \/ r = "PROFESSOR" /\ u \in Professores
                     \/ r = "COORDENADOR" /\ u \in coordenadores }

\* Mutant of AddLoggedRoles: a session keeps the roles of its first login.
SoPrimeirosPapeis(mapa, u) ==
    IF \E r \in Papeis : mapa[r] # Nulo THEN mapa
    ELSE [r \in Papeis |-> IF r \in DoLogin(u) THEN u ELSE Nulo]

\* addLoggedRole(): a role already there keeps its data.
AddLoggedRoles(mapa, u) ==
    [r \in Papeis |-> IF mapa[r] = Nulo /\ r \in DoLogin(u) THEN u ELSE mapa[r]]

\* The SessionBean after a login of u.
Entrou(u) ==
    [usuario |-> u,
     papeis  |-> AddLoggedRoles(SessionBeanAtual.papeis, u),
     menu    |-> UNION { Supports(r) : r \in DoLogin(u) }]

\* The user is found: the answer is the index page, in the same request, or
\* what that page throws.
Login(t, u) ==
    /\ Livre(t)
    /\ aba[t].mostra = "login" /\ aba[t].vale
    /\ DoLogin(u) # {}
    /\ Mostra(t, "index", Entrou(u), {}) \/ Erro(t, Entrou(u), FALSE, {})
    /\ UNCHANGED <<coordenadores, paginaBean>>

\* The user is not found, or a module fails: the login page again.
LoginRecusado(t) ==
    /\ Livre(t)
    /\ aba[t].mostra = "login" /\ aba[t].vale
    /\ \/ Mostra(t, "login", SessionBeanAtual, Abas \ {t})
       \/ \E b \in SeConstruido : Erro(t, b, FALSE, Abas)
    /\ UNCHANGED <<coordenadores, paginaBean>>

\* The attribute sessionBean is removed, and no other: the page beans keep
\* the object.  The answer is the login page, which builds another, or what
\* that page throws.
Logout(t) ==
    /\ Livre(t)
    /\ aba[t].mostra # "login" /\ aba[t].vale
    /\ Passa(aba[t].mostra)
    /\ paginaBean' = [p \in Paginas |->
          IF paginaBean[p] = Nulo THEN Nulo ELSE "antigo"]
    /\ \/ Mostra(t, "login", NovoSessionBean, {})
       \/ \E b \in {Nulo, NovoSessionBean} : Erro(t, b, FALSE, {})
    /\ UNCHANGED coordenadores

-----------------------------------------------------------------------------
(* What happens on its own *)

\* The container drops the session and everything in it.
Expira ==
    /\ sessionBean' = Nulo
    /\ paginaBean' = [p \in Paginas |-> Nulo]
    /\ aviso' = Nulo
    /\ aba' = [t \in Abas |-> [aba[t] EXCEPT !.vale = FALSE, !.doMenu = FALSE]]
    /\ UNCHANGED coordenadores

\* Another session changes the table of coordinators.
MudaCoordenacao ==
    /\ \E p \in Professores :
          coordenadores' \in {coordenadores \cup {p}, coordenadores \ {p}}
    /\ UNCHANGED <<sessionBean, paginaBean, aviso, aba>>

Next ==
    \/ \E t \in Abas :
          \/ Segue(t) \/ SegueDentro(t)
          \/ ClicaNoMenu(t) \/ Digita(t) \/ DigitaXhtml(t) \/ Usa(t) \/ PostaExpirado(t)
          \/ \E u \in Usuarios : Login(t, u)
          \/ LoginRecusado(t)
          \/ Logout(t)
    \/ Expira
    \/ MudaCoordenacao

Spec == Init /\ [][Next]_vars

\* A browser that was redirected sends the request.
FairSpec == Spec /\ \A t \in Abas : WF_vars(Segue(t) \/ SegueDentro(t))

-----------------------------------------------------------------------------
(* What holds *)

\* Every link of the menu of the user is one that LoginFilter lets pass,
\* whatever logins the session has seen before (LoginBean.login builds the
\* menu from the roles of the last one, LoginFilter reads all of them).
MenuAutorizado ==
    ~Deslogado => \A p \in sessionBean.menu : Passa(p)

\* Page beans ask the SessionBean they were given about "o usuario autenticado
\* na sessao atual" (SessionBean): a page opened from the menu since the last
\* login works for the SessionBean of that login, whichever tab logged in or
\* out and whatever was opened by its address.  WipeCacheFilter sees to it; a
\* page opened by its address alone has no such guarantee.
PaginaDoUsuario ==
    \A t \in Abas :
        aba[t].doMenu /\ aba[t].mostra \in Paginas
            => paginaBean[aba[t].mostra] # "antigo"

\* A message waits in the session only while some tab is on its way to the page
\* that shows it: no page that was not redirected shows an old one later, unless
\* it comes before that tab (preRender() of SessionBean).
AvisoTemDestino == aviso # Nulo => \E t \in Abas : aba[t].indo # Nulo

\* Without a page that fails, a request is sent elsewhere at most twice: the
\* one that follows a redirection to the login page gets a page, and the one that
\* follows a redirection to the index page gets one or, if the session has no
\* user by then, goes to the login page.  A page that fails sends where, at that
\* moment, LoginFilter lets pass (LoginFilter.doFilter and its catch).
NoMaximoDuas ==
    [][\A t \in Abas : Segue(t) \/ SegueDentro(t) =>
          \/ aba'[t].indo = Nulo
          \/ aba[t].indo = "index" /\ aba'[t].indo = "login" /\ Deslogado
          \/ /\ aviso' = "ERRO"
             /\ \E url \in {"index", "login"} : aba'[t].indo = url /\ Passa(url)']_vars

\* The page a redirection goes to throws.
FalhaAoSeguir == aviso' = "ERRO" /\ \E t \in Abas : Segue(t) \/ SegueDentro(t)

\* A redirection ends in a page, unless such pages go on failing for ever: the
\* filters by themselves never keep sending from one page to another, whoever
\* logs in and out in the meantime.
RedirecionamentoAcaba ==
    <>[][~FalhaAoSeguir]_vars =>
        \A t \in Abas : aba[t].indo # Nulo ~> aba[t].indo = Nulo

\* Nor does a message left by a filter stay in the session for ever.
AvisoAcaba == <>[][~FalhaAoSeguir]_vars => (aviso # Nulo ~> aviso = Nulo)

=============================================================================
