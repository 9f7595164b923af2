---------------------------- MODULE SessaoProofs ----------------------------
(***************************************************************************)
(* What TLAPS proves of Sessao, for any users, pages and number of tabs:   *)
(* types, the menu against the filter, and the page beans against the      *)
(* login.                                                                  *)
(***************************************************************************)
EXTENDS Sessao, TLAPS

-----------------------------------------------------------------------------
(* Types *)

LEMMA SessionBeanTipo ==
    ASSUME TypeOK
    PROVE  NovoSessionBean \in SessionBeans /\ SessionBeanAtual \in SessionBeans
BY DEF TypeOK, NovoSessionBean, SessionBeanAtual, SessionBeans

LEMMA MostraTipo ==
    ASSUME TypeOK, NEW t \in Abas, NEW url \in Vistas, NEW b \in SessionBeans,
           NEW R, Mostra(t, url, b, R)
    PROVE  /\ sessionBean' \in SessionBeans
           /\ aviso' \in Avisos \cup {Nulo}
           /\ aba' \in [Abas -> TelasDeAba]
<1>1. sessionBean' \in SessionBeans /\ aviso' \in Avisos \cup {Nulo}
  BY DEF Mostra
<1>2. ASSUME NEW x \in Abas PROVE aba'[x] \in TelasDeAba
  <2>1. CASE x = t
    BY <2>1 DEF Mostra, TypeOK, TelasDeAba, SessionBeans
  <2>2. CASE x # t
    BY <2>2 DEF Mostra, TypeOK, TelasDeAba
  <2> QED BY <2>1, <2>2
<1>3. aba' = [x \in Abas |-> aba'[x]]
  BY DEF Mostra
<1> QED BY <1>1, <1>2, <1>3

LEMMA ErroTipo ==
    ASSUME TypeOK, NEW t \in Abas, NEW b \in SessionBeans \cup {Nulo},
           NEW x \in BOOLEAN, NEW R, Erro(t, b, x, R)
    PROVE  /\ sessionBean' \in SessionBeans \cup {Nulo}
           /\ aviso' \in Avisos \cup {Nulo}
           /\ aba' \in [Abas -> TelasDeAba]
<1>1. sessionBean' \in SessionBeans \cup {Nulo} /\ aviso' \in Avisos \cup {Nulo}
  BY DEF Erro, Avisos
<1>2. ASSUME NEW z \in Abas PROVE aba'[z] \in TelasDeAba
  <2>1. aba[z] \in TelasDeAba
    BY DEF TypeOK
  <2>2. CASE z = t
    <3>1. PICK d \in {"index", "login"} :
             aba'[z] = [aba[z] EXCEPT !.indo = d, !.dentro = x, !.doMenu = @ /\ z \in R]
      BY <2>2 DEF Erro
    <3> QED BY <2>1, <3>1 DEF TelasDeAba
  <2>3. CASE z # t
    BY <2>1, <2>3 DEF Erro, TelasDeAba
  <2> QED BY <2>2, <2>3
<1>3. aba' = [z \in Abas |-> aba'[z]]
  BY DEF Erro
<1> QED BY <1>1, <1>2, <1>3

LEMMA SeConstruidoTipo ==
    ASSUME TypeOK
    PROVE  SeConstruido \subseteq SessionBeans \cup {Nulo}
BY SessionBeanTipo DEF SeConstruido, TypeOK

LEMMA RedirecionaTipo ==
    ASSUME TypeOK, NEW t \in Abas, NEW d \in {"index", "login"},
           NEW m \in Avisos, NEW x \in BOOLEAN, Redireciona(t, d, m, x)
    PROVE  /\ sessionBean' \in SessionBeans \cup {Nulo}
           /\ aviso' \in Avisos \cup {Nulo}
           /\ aba' \in [Abas -> TelasDeAba]
BY DEF Redireciona, TypeOK, TelasDeAba

LEMMA PaginasTipo ==
    ASSUME TypeOK, NEW url, NEW refresh \in BOOLEAN
    PROVE  /\ DepoisDaLimpeza(refresh) \in [Paginas -> Vinculos \cup {Nulo}]
           /\ ComBean(DepoisDaLimpeza(refresh), url) \in [Paginas -> Vinculos \cup {Nulo}]
           /\ ComBean(paginaBean, url) \in [Paginas -> Vinculos \cup {Nulo}]
<1>1. DepoisDaLimpeza(refresh) \in [Paginas -> Vinculos \cup {Nulo}]
  BY DEF DepoisDaLimpeza, TypeOK
<1>2. ASSUME NEW f \in [Paginas -> Vinculos \cup {Nulo}]
      PROVE  ComBean(f, url) \in [Paginas -> Vinculos \cup {Nulo}]
  BY DEF ComBean, Vinculos
<1> QED BY <1>1, <1>2 DEF TypeOK

LEMMA BarraTipo ==
    ASSUME TypeOK, NEW t \in Abas, NEW url, NEW x \in BOOLEAN, Barra(t, url, x)
    PROVE  TypeOK'
<1>1. \/ Redireciona(t, "login", "NOT_AUTHENTICATED", x)
      \/ Redireciona(t, "index", "NOT_AUTHORIZED", x)
  BY DEF Barra
<1>2. /\ sessionBean' \in SessionBeans \cup {Nulo}
      /\ aviso' \in Avisos \cup {Nulo}
      /\ aba' \in [Abas -> TelasDeAba]
  BY <1>1, RedirecionaTipo DEF Avisos
<1> QED BY <1>2 DEF Barra, TypeOK

LEMMA RequisitaTipo ==
    ASSUME TypeOK, NEW t \in Abas, NEW url \in Vistas, NEW refresh \in BOOLEAN,
           Requisita(t, url, refresh)
    PROVE  TypeOK'
<1>1. CASE Abre(t, url, refresh)
  <2>1. Mostra(t, url, SessionBeanAtual, IF refresh THEN Abas ELSE Abas \ {t})
    BY <1>1 DEF Abre
  <2>2. /\ sessionBean' \in SessionBeans
        /\ aviso' \in Avisos \cup {Nulo}
        /\ aba' \in [Abas -> TelasDeAba]
    BY <2>1, MostraTipo, SessionBeanTipo
  <2> QED BY <1>1, <2>2, PaginasTipo DEF Abre, TypeOK
<1>2. CASE Quebra(t, url, refresh)
  <2>1. PICK b \in SeConstruido : Erro(t, b, FALSE, Abas)
    BY <1>2 DEF Quebra
  <2>2. /\ sessionBean' \in SessionBeans \cup {Nulo}
        /\ aviso' \in Avisos \cup {Nulo}
        /\ aba' \in [Abas -> TelasDeAba]
    BY <2>1, ErroTipo, SeConstruidoTipo
  <2> QED BY <1>2, <2>2, PaginasTipo DEF Quebra, TypeOK
<1>3. CASE Barra(t, url, FALSE)
  BY <1>3, BarraTipo
<1> QED BY <1>1, <1>2, <1>3 DEF Requisita

LEMMA EntrouTipo ==
    ASSUME TypeOK, NEW u \in Usuarios
    PROVE  Entrou(u) \in SessionBeans
<1>1. AddLoggedRoles(SessionBeanAtual.papeis, u) \in [Papeis -> Usuarios \cup {Nulo}]
  BY SessionBeanTipo DEF AddLoggedRoles, SessionBeans
<1>2. UNION { Supports(r) : r \in DoLogin(u) } \in SUBSET Paginas
  BY DEF Supports
<1> QED BY <1>1, <1>2 DEF Entrou, SessionBeans

LEMMA LoginTipo ==
    ASSUME TypeOK, NEW t \in Abas, NEW u \in Usuarios, Login(t, u)
    PROVE  TypeOK'
<1>1. Mostra(t, "index", Entrou(u), {}) \/ Erro(t, Entrou(u), FALSE, {})
  BY DEF Login
<1>2. /\ sessionBean' \in SessionBeans \cup {Nulo}
      /\ aviso' \in Avisos \cup {Nulo}
      /\ aba' \in [Abas -> TelasDeAba]
  <2>1. CASE Mostra(t, "index", Entrou(u), {})
    BY <2>1, EntrouTipo, MostraTipo DEF Vistas
  <2>2. CASE Erro(t, Entrou(u), FALSE, {})
    BY <2>2, EntrouTipo, ErroTipo
  <2> QED BY <1>1, <2>1, <2>2
<1> QED BY <1>2 DEF Login, TypeOK

\* Type correctness (Sessao.TypeOK).
THEOREM Tipos == Spec => []TypeOK
<1>1. Init => TypeOK
  <2> SUFFICES ASSUME Init PROVE TypeOK
    OBVIOUS
  <2>1. NovoSessionBean \in SessionBeans
    BY DEF NovoSessionBean, SessionBeans
  <2> QED BY <2>1 DEF Init, TypeOK, TelasDeAba, Vistas
<1>2. TypeOK /\ [Next]_vars => TypeOK'
  <2> SUFFICES ASSUME TypeOK, [Next]_vars PROVE TypeOK'
    OBVIOUS
  <2>1. CASE UNCHANGED vars
    BY <2>1 DEF vars, TypeOK
  <2>2. CASE \E t \in Abas : Segue(t) \/ ClicaNoMenu(t) \/ Digita(t)
    <3>1. \E t \in Abas, url \in Vistas, refresh \in BOOLEAN :
             Requisita(t, url, refresh)
      <4> PICK t \in Abas : Segue(t) \/ ClicaNoMenu(t) \/ Digita(t)
        BY <2>2
      <4>1. aba[t].menu \subseteq Vistas
        BY DEF TypeOK, TelasDeAba, Vistas
      <4> QED BY <4>1 DEF Segue, ClicaNoMenu, Digita, Vistas
    <3> QED BY <3>1, RequisitaTipo
  <2>3. ASSUME NEW t \in Abas, SegueDentro(t) PROVE TypeOK'
    <3>1. PICK url \in {"index", "login"} :
             \/ Barra(t, url, TRUE)
             \/ /\ sessionBean' = SessionBeanAtual
                /\ aviso' = Nulo
                /\ aba' = [aba EXCEPT ![t].indo = Nulo, ![t].dentro = FALSE]
                /\ UNCHANGED <<coordenadores, paginaBean>>
             \/ /\ \E b \in SeConstruido : Erro(t, b, TRUE, Abas)
                /\ UNCHANGED <<coordenadores, paginaBean>>
      BY <2>3 DEF SegueDentro
    <3>2. CASE Barra(t, url, TRUE)
      BY <3>2, BarraTipo
    <3>3. CASE /\ sessionBean' = SessionBeanAtual
               /\ aviso' = Nulo
               /\ aba' = [aba EXCEPT ![t].indo = Nulo, ![t].dentro = FALSE]
               /\ UNCHANGED <<coordenadores, paginaBean>>
      BY <3>3, SessionBeanTipo DEF TypeOK, TelasDeAba
    <3>4. CASE /\ \E b \in SeConstruido : Erro(t, b, TRUE, Abas)
               /\ UNCHANGED <<coordenadores, paginaBean>>
      <4>1. PICK b \in SeConstruido : Erro(t, b, TRUE, Abas)
        BY <3>4
      <4>2. /\ sessionBean' \in SessionBeans \cup {Nulo}
            /\ aviso' \in Avisos \cup {Nulo}
            /\ aba' \in [Abas -> TelasDeAba]
        BY <4>1, ErroTipo, SeConstruidoTipo
      <4> QED BY <3>4, <4>2 DEF TypeOK
    <3> QED BY <3>1, <3>2, <3>3, <3>4
  <2>4. ASSUME NEW t \in Abas, Usa(t) PROVE TypeOK'
    <3>1. CASE Barra(t, aba[t].mostra, TRUE)
      BY <3>1, BarraTipo
    <3>2. CASE /\ paginaBean' = ComBean(paginaBean, aba[t].mostra)
               /\ UNCHANGED <<coordenadores, sessionBean, aviso, aba>>
      BY <3>2, PaginasTipo DEF TypeOK
    <3>3. CASE /\ paginaBean' \in {paginaBean, ComBean(paginaBean, aba[t].mostra)}
               /\ Erro(t, sessionBean, TRUE, Abas)
               /\ UNCHANGED coordenadores
      <4>1. /\ sessionBean' \in SessionBeans \cup {Nulo}
            /\ aviso' \in Avisos \cup {Nulo}
            /\ aba' \in [Abas -> TelasDeAba]
        BY <3>3, ErroTipo DEF TypeOK
      <4> QED BY <3>3, <4>1, PaginasTipo DEF TypeOK
    <3> QED BY <2>4, <3>1, <3>2, <3>3 DEF Usa
  <2>5. ASSUME NEW t \in Abas, PostaExpirado(t) PROVE TypeOK'
    <3>1. PICK xhr \in BOOLEAN :
             \/ Barra(t, aba[t].mostra, xhr)
             \/ /\ Redireciona(t, "login", "SESSION_EXPIRED", xhr)
                /\ UNCHANGED <<coordenadores, paginaBean>>
      BY <2>5 DEF PostaExpirado
    <3>2. CASE Barra(t, aba[t].mostra, xhr)
      BY <3>2, BarraTipo
    <3>3. CASE /\ Redireciona(t, "login", "SESSION_EXPIRED", xhr)
               /\ UNCHANGED <<coordenadores, paginaBean>>
      BY <3>3, RedirecionaTipo DEF TypeOK, Avisos
    <3> QED BY <3>1, <3>2, <3>3
  <2>6. ASSUME NEW t \in Abas, LoginRecusado(t) PROVE TypeOK'
    <3>1. CASE Mostra(t, "login", SessionBeanAtual, Abas \ {t})
      BY <2>6, <3>1, MostraTipo, SessionBeanTipo DEF LoginRecusado, TypeOK, Vistas
    <3>2. ASSUME NEW b \in SeConstruido, Erro(t, b, FALSE, Abas) PROVE TypeOK'
      <4>1. b \in SessionBeans \cup {Nulo}
        BY SeConstruidoTipo
      <4> QED BY <2>6, <3>2, <4>1, ErroTipo DEF LoginRecusado, TypeOK
    <3> QED BY <2>6, <3>1, <3>2 DEF LoginRecusado
  <2>7. ASSUME NEW t \in Abas, Logout(t) PROVE TypeOK'
    <3>1. paginaBean' \in [Paginas -> Vinculos \cup {Nulo}]
      BY <2>7 DEF Logout, Vinculos
    <3>2. /\ sessionBean' \in SessionBeans \cup {Nulo}
          /\ aviso' \in Avisos \cup {Nulo}
          /\ aba' \in [Abas -> TelasDeAba]
      <4>1. CASE Mostra(t, "login", NovoSessionBean, {})
        BY <4>1, MostraTipo, SessionBeanTipo DEF Vistas
      <4>2. ASSUME NEW b \in {Nulo, NovoSessionBean}, Erro(t, b, FALSE, {})
            PROVE  /\ sessionBean' \in SessionBeans \cup {Nulo}
                   /\ aviso' \in Avisos \cup {Nulo}
                   /\ aba' \in [Abas -> TelasDeAba]
        BY <4>2, ErroTipo, SessionBeanTipo
      <4> QED BY <2>7, <4>1, <4>2 DEF Logout
    <3> QED BY <2>7, <3>1, <3>2 DEF Logout, TypeOK
  <2>8. CASE Expira
    BY <2>8 DEF Expira, TypeOK, TelasDeAba
  <2>9. CASE MudaCoordenacao
    BY <2>9 DEF MudaCoordenacao, TypeOK
  <2>10. ASSUME NEW t \in Abas, DigitaXhtml(t) PROVE TypeOK'
    BY <2>10, RedirecionaTipo DEF DigitaXhtml, TypeOK, Avisos
  <2> QED BY <2>1, <2>2, <2>3, <2>4, <2>5, <2>6, <2>7, <2>8, <2>9, <2>10, LoginTipo DEF Next
<1> QED BY <1>1, <1>2, PTL DEF Spec

-----------------------------------------------------------------------------
(* The menu *)

\* The menu holds pages of the roles of the SessionBean: what MenuAutorizado
\* says of the requests, said of the state alone.
MenuDosPapeis(b) ==
    b # Nulo => \A p \in b.menu : \E r \in Papeis :
                    TemPapel(b, r) /\ p \in Supports(r)

\* Only a login gives the session a SessionBean with links in its menu.
LEMMA OrigemDoSessionBean ==
    ASSUME TypeOK, [Next]_vars
    PROVE  \/ sessionBean' \in {Nulo, sessionBean, NovoSessionBean}
           \/ \E t \in Abas, u \in Usuarios : Login(t, u)
<1>1. ASSUME NEW t \in Abas, NEW url, NEW refresh, Requisita(t, url, refresh)
      PROVE  sessionBean' \in {sessionBean, NovoSessionBean}
  BY <1>1 DEF Requisita, Abre, Quebra, Barra, Mostra, Redireciona, Erro,
              SeConstruido, SessionBeanAtual
<1>2. ASSUME NEW t \in Abas, Segue(t) \/ ClicaNoMenu(t) \/ Digita(t)
      PROVE  sessionBean' \in {sessionBean, NovoSessionBean}
  BY <1>1, <1>2 DEF Segue, ClicaNoMenu, Digita
<1>3. ASSUME NEW t \in Abas, SegueDentro(t)
      PROVE  sessionBean' \in {sessionBean, NovoSessionBean}
  BY <1>3 DEF SegueDentro, Barra, Redireciona, Erro, SeConstruido, SessionBeanAtual
<1>4. ASSUME NEW t \in Abas, Usa(t) \/ PostaExpirado(t) \/ DigitaXhtml(t)
      PROVE  sessionBean' = sessionBean
  BY <1>4 DEF Usa, DigitaXhtml, PostaExpirado, Barra, Redireciona, Erro
<1>5. ASSUME NEW t \in Abas, LoginRecusado(t) \/ Logout(t)
      PROVE  sessionBean' \in {Nulo, sessionBean, NovoSessionBean}
  BY <1>5 DEF LoginRecusado, Logout, Mostra, Erro, SeConstruido, SessionBeanAtual
<1>6. CASE Expira
  BY <1>6 DEF Expira
<1>7. CASE MudaCoordenacao \/ UNCHANGED vars
  BY <1>7 DEF MudaCoordenacao, vars
<1> QED BY <1>2, <1>3, <1>4, <1>5, <1>6, <1>7 DEF Next

\* A login gives a menu of roles that are then in the session.
LEMMA MenuDoLogin ==
    ASSUME TypeOK, NEW t \in Abas, NEW u \in Usuarios, Login(t, u)
    PROVE  MenuDosPapeis(sessionBean')
<1> DEFINE papeis == AddLoggedRoles(SessionBeanAtual.papeis, u)
<1>1. /\ sessionBean'.menu = UNION { Supports(r) : r \in DoLogin(u) }
      /\ sessionBean'.papeis = papeis
  <2>1. sessionBean' = Entrou(u)
    BY DEF Login, Mostra, Erro
  <2> QED BY <2>1 DEF Entrou
<1>2. ASSUME NEW r \in DoLogin(u) PROVE r \in Papeis /\ papeis[r] # Nulo
  BY <1>2, SessaoAssumption DEF DoLogin, AddLoggedRoles
<1>3. SUFFICES ASSUME NEW p \in sessionBean'.menu
               PROVE  \E r \in Papeis : TemPapel(sessionBean', r) /\ p \in Supports(r)
  BY DEF MenuDosPapeis
<1>4. PICK r \in DoLogin(u) : p \in Supports(r)
  BY <1>1, <1>3
<1>5. TemPapel(sessionBean', r)
  BY <1>1, <1>2, <1>4 DEF TemPapel
<1> QED BY <1>2, <1>4, <1>5

\* Every link of the menu is let pass by LoginFilter, after any sequence of
\* logins (Sessao.MenuAutorizado).
THEOREM MenuPassa == Spec => []MenuAutorizado
<1>1. Init => MenuDosPapeis(sessionBean)
  BY DEF Init, MenuDosPapeis, NovoSessionBean
<1>2. TypeOK /\ MenuDosPapeis(sessionBean) /\ [Next]_vars => MenuDosPapeis(sessionBean)'
  <2> SUFFICES ASSUME TypeOK, MenuDosPapeis(sessionBean), [Next]_vars
               PROVE  MenuDosPapeis(sessionBean')
    BY DEF MenuDosPapeis, TemPapel
  <2>1. CASE sessionBean' \in {Nulo, sessionBean}
    BY <2>1 DEF MenuDosPapeis
  <2>2. CASE sessionBean' = NovoSessionBean
    BY <2>2 DEF MenuDosPapeis, NovoSessionBean
  <2> QED BY <2>1, <2>2, OrigemDoSessionBean, MenuDoLogin
<1>3. MenuDosPapeis(sessionBean) => MenuAutorizado
  BY DEF MenuDosPapeis, MenuAutorizado, Passa, Autorizado, Deslogado, SemUsuario
<1> QED BY <1>1, <1>2, <1>3, Tipos, PTL DEF Spec

-----------------------------------------------------------------------------
(* The page beans *)

\* Steps that open nothing from the menu, and turn no page bean into an old one.
LEMMA PaginaIgual ==
    ASSUME PaginaDoUsuario,
           \A x \in Abas : aba'[x].doMenu => aba[x].doMenu /\ aba'[x].mostra = aba[x].mostra,
           \A p \in Paginas : paginaBean'[p] = "antigo" => paginaBean[p] = "antigo"
    PROVE  PaginaDoUsuario'
BY DEF PaginaDoUsuario

\* A page that fails, or a request that is turned away, leaves the tabs as they
\* are, but for the one it sends elsewhere.
LEMMA ErroPagina ==
    ASSUME TypeOK, NEW t \in Abas, NEW b, NEW x \in BOOLEAN, NEW R, Erro(t, b, x, R)
    PROVE  /\ \A z \in Abas : aba'[z].doMenu => aba[z].doMenu /\ aba'[z].mostra = aba[z].mostra
           /\ \A z \in Abas : z \notin R => ~aba'[z].doMenu
<1> SUFFICES ASSUME NEW z \in Abas
             PROVE  /\ aba'[z].doMenu => aba[z].doMenu /\ aba'[z].mostra = aba[z].mostra
                    /\ z \notin R => ~aba'[z].doMenu
  OBVIOUS
<1>1. aba[z] \in TelasDeAba
  BY DEF TypeOK
<1>2. \/ \E d : aba'[z] = [aba[z] EXCEPT !.indo = d, !.dentro = x, !.doMenu = @ /\ z \in R]
      \/ aba'[z] = [aba[z] EXCEPT !.doMenu = @ /\ z \in R]
  BY DEF Erro
<1> QED BY <1>1, <1>2 DEF TelasDeAba

LEMMA ErroSemMenu ==
    ASSUME TypeOK, NEW t \in Abas, NEW b, NEW x \in BOOLEAN, Erro(t, b, x, {})
    PROVE  \A z \in Abas : ~aba'[z].doMenu
<1> DEFINE R == {}
<1>1. Erro(t, b, x, R)
  OBVIOUS
<1>2. \A z \in Abas : z \notin R
  OBVIOUS
<1> HIDE DEF R
<1> QED BY <1>1, <1>2, ErroPagina

LEMMA RedirecionaPagina ==
    ASSUME TypeOK, NEW t \in Abas, NEW d, NEW m, NEW x \in BOOLEAN, Redireciona(t, d, m, x)
    PROVE  \A z \in Abas : aba'[z].doMenu => aba[z].doMenu /\ aba'[z].mostra = aba[z].mostra
BY DEF Redireciona, TypeOK, TelasDeAba

LEMMA BarraPagina ==
    ASSUME TypeOK, NEW t \in Abas, NEW url, NEW x \in BOOLEAN, Barra(t, url, x)
    PROVE  \A z \in Abas : aba'[z].doMenu => aba[z].doMenu /\ aba'[z].mostra = aba[z].mostra
BY RedirecionaPagina DEF Barra

\* A page that is opened counts as opened from the menu only when the page
\* beans were wiped first.
LEMMA RequisitaPagina ==
    ASSUME TypeOK, PaginaDoUsuario, NEW t \in Abas, NEW url, NEW refresh \in BOOLEAN,
           Requisita(t, url, refresh)
    PROVE  PaginaDoUsuario'
<1> DEFINE limpo == DepoisDaLimpeza(refresh)
<1>1. \A p \in Paginas : limpo[p] = "antigo" => ~refresh /\ paginaBean[p] = "antigo"
  BY SessaoAssumption DEF DepoisDaLimpeza, Vinculos
<1>2. \A p \in Paginas : ComBean(limpo, url)[p] = "antigo" => limpo[p] = "antigo"
  BY DEF ComBean
<1>3. CASE Abre(t, url, refresh)
  <2>1. /\ Mostra(t, url, SessionBeanAtual, IF refresh THEN Abas ELSE Abas \ {t})
        /\ paginaBean' = ComBean(limpo, url)
    BY <1>3 DEF Abre
  <2>2. ASSUME NEW x \in Abas, aba'[x].doMenu, aba'[x].mostra \in Paginas
        PROVE  refresh \/ (aba[x].doMenu /\ aba[x].mostra = aba'[x].mostra)
    BY <2>1, <2>2 DEF Mostra, TypeOK, TelasDeAba
  <2> QED BY <1>1, <1>2, <2>1, <2>2 DEF PaginaDoUsuario
<1>4. CASE Quebra(t, url, refresh) \/ Barra(t, url, FALSE)
  <2>1. \A x \in Abas : aba'[x].doMenu => aba[x].doMenu /\ aba'[x].mostra = aba[x].mostra
    <3>1. CASE Quebra(t, url, refresh)
      BY <3>1, ErroPagina DEF Quebra
    <3>2. CASE Barra(t, url, FALSE)
      BY <3>2, BarraPagina
    <3> QED BY <1>4, <3>1, <3>2
  <2>2. paginaBean' \in {limpo, ComBean(limpo, url), paginaBean}
    BY <1>4 DEF Quebra, Barra
  <2>3. \A p \in Paginas : paginaBean'[p] = "antigo" => paginaBean[p] = "antigo"
    BY <1>1, <1>2, <2>2
  <2> QED BY <2>1, <2>3, PaginaIgual
<1> QED BY <1>3, <1>4 DEF Requisita

\* A page opened from the menu since the last login works for the SessionBean
\* of that login (Sessao.PaginaDoUsuario).
THEOREM PaginaEhDoUsuario == Spec => []PaginaDoUsuario
<1>1. Init => PaginaDoUsuario
  BY DEF Init, PaginaDoUsuario
<1>2. TypeOK /\ PaginaDoUsuario /\ [Next]_vars => PaginaDoUsuario'
  <2> SUFFICES ASSUME TypeOK, PaginaDoUsuario, [Next]_vars PROVE PaginaDoUsuario'
    OBVIOUS
  <2>1. ASSUME NEW t \in Abas, Segue(t) PROVE PaginaDoUsuario'
    BY <2>1, RequisitaPagina DEF Segue
  <2>2. ASSUME NEW t \in Abas, ClicaNoMenu(t) PROVE PaginaDoUsuario'
    BY <2>2, RequisitaPagina DEF ClicaNoMenu
  <2>3. ASSUME NEW t \in Abas, Digita(t) PROVE PaginaDoUsuario'
    BY <2>3, RequisitaPagina DEF Digita
  <2>4. ASSUME NEW t \in Abas, SegueDentro(t) PROVE PaginaDoUsuario'
    <3>1. paginaBean' = paginaBean
      BY <2>4 DEF SegueDentro, Barra
    <3>2. \A x \in Abas : aba'[x].doMenu => aba[x].doMenu /\ aba'[x].mostra = aba[x].mostra
      <4>1. CASE aba' = [aba EXCEPT ![t].indo = Nulo, ![t].dentro = FALSE]
        BY <4>1 DEF TypeOK, TelasDeAba
      <4> QED BY <2>4, <4>1, BarraPagina, ErroPagina DEF SegueDentro
    <3> QED BY <3>1, <3>2, PaginaIgual
  <2>5. ASSUME NEW t \in Abas, Usa(t) \/ PostaExpirado(t) \/ DigitaXhtml(t)
        PROVE  PaginaDoUsuario'
    <3>1. \A x \in Abas : aba'[x].doMenu => aba[x].doMenu /\ aba'[x].mostra = aba[x].mostra
      <4>1. CASE Usa(t)
        BY <4>1, BarraPagina, ErroPagina DEF Usa
      <4>2. CASE PostaExpirado(t)
        BY <4>2, BarraPagina, RedirecionaPagina DEF PostaExpirado
      <4>3. CASE DigitaXhtml(t)
        BY <4>3, RedirecionaPagina DEF DigitaXhtml
      <4> QED BY <2>5, <4>1, <4>2, <4>3
    <3>2. \A p \in Paginas : paginaBean'[p] = "antigo" => paginaBean[p] = "antigo"
      BY <2>5 DEF Usa, DigitaXhtml, PostaExpirado, Barra, ComBean
    <3> QED BY <3>1, <3>2, PaginaIgual
  <2>6. ASSUME NEW t \in Abas, NEW u \in Usuarios, Login(t, u) PROVE PaginaDoUsuario'
    <3>1. CASE Mostra(t, "index", Entrou(u), {})
      <4>1. \A x \in Abas : ~aba'[x].doMenu
        BY <3>1 DEF Mostra, TypeOK, TelasDeAba
      <4> QED BY <4>1 DEF PaginaDoUsuario
    <3>2. CASE Erro(t, Entrou(u), FALSE, {})
      BY <3>2, ErroSemMenu DEF PaginaDoUsuario
    <3> QED BY <2>6, <3>1, <3>2 DEF Login
  <2>7. ASSUME NEW t \in Abas, LoginRecusado(t) PROVE PaginaDoUsuario'
    <3>1. paginaBean' = paginaBean
      BY <2>7 DEF LoginRecusado
    <3>2. \A x \in Abas : aba'[x].doMenu => aba[x].doMenu /\ aba'[x].mostra = aba[x].mostra
      <4>1. CASE Mostra(t, "login", SessionBeanAtual, Abas \ {t})
        BY <4>1 DEF Mostra, TypeOK, TelasDeAba
      <4>2. CASE \E b \in SeConstruido : Erro(t, b, FALSE, Abas)
        BY <4>2, ErroPagina
      <4> QED BY <2>7, <4>1, <4>2 DEF LoginRecusado
    <3> QED BY <3>1, <3>2, PaginaIgual
  <2>8. ASSUME NEW t \in Abas, Logout(t) PROVE PaginaDoUsuario'
    <3>1. \A x \in Abas : ~aba'[x].doMenu
      <4>1. CASE Mostra(t, "login", NovoSessionBean, {})
        BY <4>1 DEF Mostra, TypeOK, TelasDeAba
      <4>2. ASSUME NEW b, Erro(t, b, FALSE, {}) PROVE \A x \in Abas : ~aba'[x].doMenu
        BY <4>2, ErroSemMenu
      <4> QED BY <2>8, <4>1, <4>2 DEF Logout
    <3> QED BY <3>1 DEF PaginaDoUsuario
  <2>9. CASE Expira
    <3>1. \A x \in Abas : ~aba'[x].doMenu
      BY <2>9 DEF Expira, TypeOK, TelasDeAba
    <3> QED BY <3>1 DEF PaginaDoUsuario
  <2>10. CASE MudaCoordenacao \/ UNCHANGED vars
    BY <2>10 DEF MudaCoordenacao, vars, PaginaDoUsuario
  <2> QED BY <2>1, <2>2, <2>3, <2>4, <2>5, <2>6, <2>7, <2>8, <2>9, <2>10 DEF Next
<1> QED BY <1>1, <1>2, Tipos, PTL DEF Spec

-----------------------------------------------------------------------------
(* Redirections and their messages *)

\* A page that fails sends the tab to the index page or to the login page,
\* whichever LoginFilter lets pass in the state it leaves.
LEMMA ErroDestino ==
    ASSUME TypeOK, NEW t \in Abas, NEW b, NEW x \in BOOLEAN, NEW R, Erro(t, b, x, R)
    PROVE  /\ aviso' = "ERRO"
           /\ \E url \in {"index", "login"} : aba'[t].indo = url /\ Passa(url)'
<1>1. aviso' = "ERRO" /\ sessionBean' = b
  BY DEF Erro
<1>2. aba'[t].indo = IF SemUsuario(b) THEN "login" ELSE "index"
  BY DEF Erro, TypeOK, TelasDeAba
<1>3. SemUsuario(sessionBean') => Passa("login")'
  BY DEF Passa
<1>4. ~SemUsuario(sessionBean') => Passa("index")'
  BY DEF Passa, Deslogado, Autorizado
<1> QED BY <1>1, <1>2, <1>3, <1>4

\* A request takes the message, fails or is turned away.
LEMMA RequisitaAviso ==
    ASSUME TypeOK, NEW t \in Abas, NEW url \in Vistas, NEW refresh \in BOOLEAN,
           Requisita(t, url, refresh)
    PROVE  \/ aviso' = Nulo /\ aba'[t].indo = Nulo
           \/ \E b : Erro(t, b, FALSE, Abas)
           \/ Barra(t, url, FALSE)
<1>1. CASE Abre(t, url, refresh)
  BY <1>1 DEF Abre, Mostra
<1>2. CASE Quebra(t, url, refresh)
  BY <1>2 DEF Quebra
<1> QED BY <1>1, <1>2 DEF Requisita

\* LoginFilter sends to the index page those who are logged in.
LEMMA BarraDestino ==
    ASSUME TypeOK, NEW t \in Abas, NEW url, NEW x \in BOOLEAN, Barra(t, url, x)
    PROVE  /\ url # "login"
           /\ aba'[t].indo = IF Deslogado THEN "login" ELSE "index"
           /\ url = "index" => aba'[t].indo = "login"
BY DEF Barra, Passa, Autorizado, Redireciona, TypeOK, TelasDeAba

\* A message waits only while some tab is on its way (Sessao.AvisoTemDestino).
THEOREM AvisoDeQuemVai == Spec => []AvisoTemDestino
<1>1. Init => AvisoTemDestino
  BY DEF Init, AvisoTemDestino
<1>2. TypeOK /\ AvisoTemDestino /\ [Next]_vars => AvisoTemDestino'
  <2> SUFFICES ASSUME TypeOK, AvisoTemDestino, [Next]_vars PROVE AvisoTemDestino'
    OBVIOUS
  <2>1. SUFFICES \/ aviso' = Nulo
                 \/ \E t \in Abas : aba'[t].indo \in {"index", "login"}
                 \/ aviso' = aviso /\ \A t \in Abas : aba'[t].indo = aba[t].indo
    BY SessaoAssumption DEF AvisoTemDestino, Vistas
  <2>2. ASSUME NEW t \in Abas, Segue(t) \/ ClicaNoMenu(t) \/ Digita(t)
        PROVE  aviso' = Nulo \/ aba'[t].indo \in {"index", "login"}
    <3>1. aba[t].menu \subseteq Vistas
      BY DEF TypeOK, TelasDeAba, Vistas
    <3>2. PICK url \in Vistas, refresh \in BOOLEAN : Requisita(t, url, refresh)
      BY <2>2, <3>1 DEF Segue, ClicaNoMenu, Digita, Vistas
    <3> QED BY <3>2, RequisitaAviso, BarraDestino, ErroDestino
  <2>3. ASSUME NEW t \in Abas, SegueDentro(t)
        PROVE  aviso' = Nulo \/ aba'[t].indo \in {"index", "login"}
    BY <2>3, BarraDestino, ErroDestino DEF SegueDentro
  <2>4. ASSUME NEW t \in Abas, Usa(t) \/ PostaExpirado(t) \/ DigitaXhtml(t)
        PROVE  \/ aba'[t].indo \in {"index", "login"}
               \/ UNCHANGED <<aviso, aba>>
    <3>1. CASE Usa(t)
      BY <3>1, BarraDestino, ErroDestino DEF Usa
    <3>2. CASE PostaExpirado(t) \/ DigitaXhtml(t)
      BY <3>2, BarraDestino DEF PostaExpirado, DigitaXhtml, Redireciona, TypeOK, TelasDeAba
    <3> QED BY <2>4, <3>1, <3>2
  <2>5. ASSUME NEW t \in Abas, LoginRecusado(t) \/ Logout(t) \/ \E u \in Usuarios : Login(t, u)
        PROVE  aviso' = Nulo \/ aba'[t].indo \in {"index", "login"}
    <3>1. \/ aviso' = Nulo
          \/ \E b, R : Erro(t, b, FALSE, R)
      BY <2>5 DEF LoginRecusado, Logout, Login, Mostra
    <3> QED BY <3>1, ErroDestino
  <2>6. CASE Expira
    BY <2>6 DEF Expira
  <2>7. CASE MudaCoordenacao \/ UNCHANGED vars
    BY <2>7 DEF MudaCoordenacao, vars
  <2> QED BY <2>2, <2>3, <2>4, <2>5, <2>6, <2>7 DEF Next
<1> QED BY <1>1, <1>2, Tipos, PTL DEF Spec

\* Without a page that fails a request is sent elsewhere at most twice, and a
\* page that fails sends where LoginFilter lets pass (Sessao.NoMaximoDuas).
THEOREM DuasRedirecoes == Spec => NoMaximoDuas
<1> DEFINE Segundo(t) ==
             \/ aba'[t].indo = Nulo
             \/ aba[t].indo = "index" /\ aba'[t].indo = "login" /\ Deslogado
             \/ /\ aviso' = "ERRO"
                /\ \E url \in {"index", "login"} : aba'[t].indo = url /\ Passa(url)'
\* Whom LoginFilter turns away from the index page is not logged in.
<1>1. ASSUME TypeOK, NEW t \in Abas, NEW url \in {"index", "login"}, NEW x \in BOOLEAN,
             Barra(t, url, x), aba[t].indo = url
      PROVE  Segundo(t)
  <2>1. url = "index" /\ Deslogado
    BY <1>1 DEF Barra, Passa, Autorizado
  <2> QED BY <1>1, <2>1, BarraDestino
<1>2. ASSUME TypeOK, NEW t \in Abas, Segue(t) PROVE Segundo(t)
  <2>1. PICK url \in {"index", "login"} : aba[t].indo = url /\ Requisita(t, url, FALSE)
    BY <1>2 DEF Segue
  <2>2. \/ aba'[t].indo = Nulo
        \/ \E b : Erro(t, b, FALSE, Abas)
        \/ Barra(t, url, FALSE)
    BY <1>2, <2>1, RequisitaAviso DEF Vistas
  <2> QED BY <1>1, <1>2, <2>1, <2>2, ErroDestino
<1>3. ASSUME TypeOK, NEW t \in Abas, SegueDentro(t) PROVE Segundo(t)
  <2>1. PICK url \in {"index", "login"} :
           /\ aba[t].indo = url
           /\ \/ Barra(t, url, TRUE)
              \/ aba' = [aba EXCEPT ![t].indo = Nulo, ![t].dentro = FALSE]
              \/ \E b : Erro(t, b, TRUE, Abas)
    BY <1>3 DEF SegueDentro
  <2>2. CASE Barra(t, url, TRUE)
    BY <1>1, <1>3, <2>1, <2>2
  <2>3. CASE aba' = [aba EXCEPT ![t].indo = Nulo, ![t].dentro = FALSE]
    BY <1>3, <2>3 DEF TypeOK, TelasDeAba
  <2>4. CASE \E b : Erro(t, b, TRUE, Abas)
    BY <1>3, <2>4, ErroDestino
  <2> QED BY <2>1, <2>2, <2>3, <2>4
<1>4. TypeOK => [\A t \in Abas : Segue(t) \/ SegueDentro(t) => Segundo(t)]_vars
  BY <1>2, <1>3
<1> QED BY <1>4, Tipos, PTL DEF Spec, NoMaximoDuas

=============================================================================
