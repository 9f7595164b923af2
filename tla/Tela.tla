-------------------------------- MODULE Tela --------------------------------
(***************************************************************************)
(* The edit screen shared by the seminar (SMR) and the monitoring (MTR)    *)
(* modules: a table of the database, a session-scoped bean holding a list  *)
(* read from it and the object under edition, and the browser tabs that    *)
(* post to that bean.  A component EXTENDS this module, says what a record *)
(* is (Registros) and adds the validation of its own persist().            *)
(*                                                                         *)
(* The granularity is one HTTP request per step.  Requests of different    *)
(* sessions meet only in the table; requests of the tabs of one session    *)
(* meet in its bean.                                                       *)
(***************************************************************************)
EXTENDS Integers

CONSTANTS
    Sessoes,    \* HTTP sessions
    Abas,       \* browser tabs
    SessaoDe,   \* the session each tab belongs to
    Registros,  \* what a form can submit and a row can hold, without the id
    MaxId,      \* bound: ids the auto-increment column may hand out
    MaxFalhas,  \* bound: calls to the database that fail
    Nulo,       \* Java's null
    Fechado     \* no dialog is open in a tab

Ids == 1..MaxId

\* What a session bean holds.  The list is keyed by id: equals() compares ids.
Beans == [lista   : [Ids -> Registros \cup {Nulo}],
          id      : Ids \cup {Nulo},    \* id of the object under edition
          naLista : BOOLEAN]            \* that object is an element of the list

ASSUME TelaAssumption ==
    /\ SessaoDe \in [Abas -> Sessoes]
    /\ MaxId \in Nat
    /\ MaxFalhas \in Nat
    /\ Nulo \notin Ids /\ Nulo \notin Registros /\ Nulo \notin Beans
    /\ Fechado \notin Ids /\ Fechado # Nulo

VARIABLES
    tabela,   \* the rows of the table, by id; Nulo where there is none
    proximo,  \* the next value of the auto-increment column
    bean,     \* the session attribute of each session; Nulo before it is built
    dialogo,  \* what each tab edits: Fechado, Nulo (a new record) or an id
    falhas    \* database failures so far

telaVars == <<tabela, proximo, bean, dialogo, falhas>>

TelaTypeOK ==
    /\ tabela \in [Ids -> Registros \cup {Nulo}]
    /\ proximo \in 1..MaxId + 1
    /\ bean \in [Sessoes -> Beans \cup {Nulo}]
    /\ dialogo \in [Abas -> Ids \cup {Nulo, Fechado}]
    /\ falhas \in 0..MaxFalhas

\* The object under edition of the bean b, when it is an element of the list,
\* is one the list has.
ElementoCerto(b) == b.naLista => b.id \in Ids /\ b.lista[b.id] # Nulo

ElementosCertos == \A s \in Sessoes : bean[s] # Nulo => ElementoCerto(bean[s])

TelaInit ==
    /\ tabela = [i \in Ids |-> Nulo]
    /\ proximo = 1
    /\ bean = [s \in Sessoes |-> Nulo]
    /\ dialogo = [t \in Abas |-> Fechado]
    /\ falhas = 0

-----------------------------------------------------------------------------
(* The bean *)

\* Mutants of Refrescado: the list is not read; it is read from the session of
\* Hibernate that gave the objects before, which gives the same ones.
RefrescadoSemLer(b, tab) == b
RefrescadoMesmosObjetos(b, tab) == [b EXCEPT !.lista = tab]

\* refresh(): the list is replaced by fresh objects, so the object under
\* edition, kept as it is, stops being one of them.
Refrescado(b, tab) == [b EXCEPT !.lista = tab, !.naLista = FALSE]

\* A bean just built: @PostConstruct has read the table.
NovoBean == [lista |-> tabela, id |-> Nulo, naLista |-> FALSE]

\* The bean a request of session s works on, built on demand.
Bean(s) == IF bean[s] = Nulo THEN NovoBean ELSE bean[s]

\* The bean once JSF has copied the form into the object under edition:
\* when that object is in the list, the list shows the unsaved values.
Submetido(s, f) ==
    LET b == Bean(s) IN
    IF b.naLista THEN [b EXCEPT !.lista[b.id] = f] ELSE b

\* Requests that open no dialog come from a tab without one: it is modal.
SemDialogo(t) == dialogo[t] = Fechado

Falha == falhas < MaxFalhas /\ falhas' = falhas + 1

-----------------------------------------------------------------------------
(* Requests of a tab *)

\* A menu link, or reload, of the page: every menu URL ends in ?refresh=true,
\* so the filter drops the session's bean and the page builds a new one.
AbrePagina(t) ==
    /\ bean' = [bean EXCEPT ![SessaoDe[t]] = NovoBean]
    /\ dialogo' = [dialogo EXCEPT ![t] = Fechado]
    /\ UNCHANGED <<tabela, proximo, falhas>>

\* A menu link to another page drops the bean without building a new one.
SaiDaPagina(t) ==
    /\ bean' = [bean EXCEPT ![SessaoDe[t]] = Nulo]
    /\ dialogo' = [dialogo EXCEPT ![t] = Fechado]
    /\ UNCHANGED <<tabela, proximo, falhas>>

\* The session expires: its attributes go, and its views with them.
Expira(s) ==
    /\ bean[s] # Nulo
    /\ bean' = [bean EXCEPT ![s] = Nulo]
    /\ dialogo' = [t \in Abas |-> IF SessaoDe[t] = s THEN Fechado ELSE dialogo[t]]
    /\ UNCHANGED <<tabela, proximo, falhas>>

\* Mutant of Adiciona: the object under edition is not replaced.
AdicionaSemLimpar(t) ==
    /\ SemDialogo(t)
    /\ bean' = [bean EXCEPT ![SessaoDe[t]] = Bean(SessaoDe[t])]
    /\ dialogo' = [dialogo EXCEPT ![t] = Nulo]
    /\ UNCHANGED <<tabela, proximo, falhas>>

\* create(): a clean object to edit, which belongs to no list.
Adiciona(t) ==
    /\ SemDialogo(t)
    /\ bean' = [bean EXCEPT ![SessaoDe[t]] =
                    [Bean(SessaoDe[t]) EXCEPT !.id = Nulo, !.naLista = FALSE]]
    /\ dialogo' = [dialogo EXCEPT ![t] = Nulo]
    /\ UNCHANGED <<tabela, proximo, falhas>>

\* update(x): the element of the list itself becomes the object under edition.
Edita(t, i) ==
    /\ SemDialogo(t)
    /\ Bean(SessaoDe[t]).lista[i] # Nulo
    /\ bean' = [bean EXCEPT ![SessaoDe[t]] =
                    [Bean(SessaoDe[t]) EXCEPT !.id = i, !.naLista = TRUE]]
    /\ dialogo' = [dialogo EXCEPT ![t] = i]
    /\ UNCHANGED <<tabela, proximo, falhas>>

\* The dialog is dismissed in the browser: the server is not told.
FechaDialogo(t) ==
    /\ ~SemDialogo(t)
    /\ dialogo' = [dialogo EXCEPT ![t] = Fechado]
    /\ UNCHANGED <<tabela, proximo, bean, falhas>>

\* delete(x) of a row that exists.  The commit may be done and its answer
\* lost, or the list may not be read again: the list then keeps the element.
ExcluiExistente(t, i) ==
    /\ SemDialogo(t)
    /\ Bean(SessaoDe[t]).lista[i] # Nulo
    /\ tabela[i] # Nulo
    /\ tabela' = [tabela EXCEPT ![i] = Nulo]
    /\ \/ /\ bean' = [bean EXCEPT ![SessaoDe[t]] =
                          Refrescado(Bean(SessaoDe[t]), tabela')]
          /\ UNCHANGED falhas
       \/ /\ bean' = [bean EXCEPT ![SessaoDe[t]] = Bean(SessaoDe[t])]
          /\ Falha
    /\ UNCHANGED <<proximo, dialogo>>

\* delete(x) that fails: Hibernate finds no row to delete, or the database
\* does not answer.  The exception is shown and the list is not read again.
ExcluiSemEfeito(t, i) ==
    /\ SemDialogo(t)
    /\ Bean(SessaoDe[t]).lista[i] # Nulo
    /\ bean' = [bean EXCEPT ![SessaoDe[t]] = Bean(SessaoDe[t])]
    /\ \/ tabela[i] = Nulo /\ UNCHANGED falhas
       \/ Falha
    /\ UNCHANGED <<tabela, proximo, dialogo>>

-----------------------------------------------------------------------------
(* service.persist(), hideDialog() and refresh(), once the form f was        *)
(* accepted: the last part of persist(), given the bean b it works on.       *)

\* saveOrUpdate() by the id of the object: null inserts, an id updates.
Alvo(b) == IF b.id = Nulo THEN proximo ELSE b.id

\* Mutant of Gravavel: an update of a row that is gone inserts it again, as a
\* merge would.
GravavelComMerge(b) == b.id = Nulo => proximo \in Ids

\* Only ids within the bound are inserted, and only rows found are updated.
Gravavel(b) ==
    IF b.id = Nulo THEN proximo \in Ids ELSE tabela[b.id] # Nulo

\* The row is written.  The dialog is hidden before the list is read again,
\* which may fail; or the answer of the commit is lost, and the dialog stays.
Grava(t, b, f) ==
    LET s == SessaoDe[t]
        i == Alvo(b) IN
    /\ Gravavel(b)
    /\ tabela' = [tabela EXCEPT ![i] = f]
    /\ proximo' = IF b.id = Nulo THEN proximo + 1 ELSE proximo
    /\ \/ /\ bean' = [bean EXCEPT ![s] = Refrescado([b EXCEPT !.id = i], tabela')]
          /\ dialogo' = [dialogo EXCEPT ![t] = Fechado]
          /\ UNCHANGED falhas
       \/ /\ bean' = [bean EXCEPT ![s] = [b EXCEPT !.id = i]]
          /\ dialogo' = [dialogo EXCEPT ![t] = Fechado]
          /\ Falha
       \/ /\ bean' = [bean EXCEPT ![s] = [b EXCEPT !.id = i]]
          /\ UNCHANGED dialogo
          /\ Falha

\* Nothing is written and the exception is shown: no row has the id (another
\* session deleted it), the database does not answer, or the transaction of
\* an insert is rolled back after the object was given its generated id.
NaoGrava(t, b) ==
    LET s == SessaoDe[t] IN
    /\ \/ /\ b.id # Nulo /\ tabela[b.id] = Nulo
          /\ bean' = [bean EXCEPT ![s] = b]
          /\ UNCHANGED <<proximo, falhas>>
       \/ /\ bean' = [bean EXCEPT ![s] = b]
          /\ Falha
          /\ UNCHANGED proximo
       \/ /\ b.id = Nulo /\ proximo \in Ids
          /\ bean' = [bean EXCEPT ![s] = [b EXCEPT !.id = proximo]]
          /\ proximo' = proximo + 1
          /\ Falha
    /\ UNCHANGED <<tabela, dialogo>>

\* What a tab may ask of a screen it has loaded, besides saving.
Navega(t) ==
    \/ SaiDaPagina(t)
    \/ Adiciona(t)
    \/ FechaDialogo(t)
    \/ \E i \in Ids : Edita(t, i) \/ ExcluiExistente(t, i) \/ ExcluiSemEfeito(t, i)

-----------------------------------------------------------------------------
(* What any such screen promises, for any number of sessions and with        *)
(* failures, if its component only writes through Grava and NaoGrava.        *)

\* Ids are given out once, a request writes one row and what was deleted is
\* not brought back by a session that still lists it: the table is the one
\* saveOrUpdate() and delete() of _DaoHibernateAbstract keep.
Cad == INSTANCE Cadastro WITH registros <- tabela, proxima <- proximo
ImplementaCadastro == Cad!CadastroSpec

\* The list a session shows is the table.
EmDia(s) == bean[s] # Nulo => bean[s].lista = tabela

\* A list that is the table stops being it only when the database fails, or when
\* another session writes.
EnvelhecePorFora ==
    \A s \in Sessoes :
        EmDia(s) /\ ~EmDia(s)' =>
            falhas' # falhas \/ (bean'[s] = bean[s] /\ tabela' # tabela)

\* A row is rewritten only from a dialog that was opened on it, and created
\* only from a dialog that was opened to create; after a failure a creation
\* dialog may rewrite the row it had created (update() and create() keep the
\* instance that will be edited).  For sessions with one tab each.
SalvaOQueAbriu ==
    [][\A i \in Ids :
        tabela'[i] \notin {Nulo, tabela[i]} =>
            \E t \in Abas :
                \/ dialogo[t] = i
                \/ /\ dialogo[t] = Nulo
                   /\ \/ tabela[i] = Nulo
                      \/ falhas > 0 /\ bean[SessaoDe[t]].id = i]_telaVars

=============================================================================
