# TLA+ models of the SCA

The SCA (`src/sca`) is the academic control system of a school: a Java web
application (JSF Mojarra 2.2.14 with PrimeFaces 6.2, Spring, Hibernate, MySQL)
that shows what spreadsheets of the SIE say of students, professors and classes,
and lets users book seminars, keep monitoring classes and name the coordinators
of courses. This directory models its control in TLA+, checks the models with
TLC on small instances and proves the main properties with TLAPS.

Java paths below are relative to `src/sca/src/main/java/br/eic/sca`, pages to
`src/sca/src/main/webapp`. Names of the models are those of the code where TLA+
allows it, and Portuguese elsewhere, as in the code.

## 1. Inventory

| component | state it keeps | operations | talks to |
|---|---|---|---|
| Seminars (`modules/smr/control/SeminarioBean`, `smr/seminario.xhtml`) | session bean: list of entities, object under edition, `today`; a dialog in each tab | `refresh`, `create`, `update`, `delete`, `persist` with `hasScheduleConflict` | service and DAO, table `smr_seminario` |
| Monitoring classes (`modules/mtr/control/TurmaMonitoriaBean`) | the same without `today` | the same, one validation | table `mtr_turma_monitoria` |
| Hibernate DAO and service (`core/persistence`) | the tables, with `IDENTITY` ids | `persist` (saveOrUpdate), `delete`, `retrieveAll` | MySQL |
| Session, login, menu, filters (`core/login`, `core/security`, `core/session`) | session attributes `sessionBean`, `preRenderMessage`, the page beans | `LoginFilter`, `WipeCacheFilter`, `HideXhtmlFilter`, `login`, `logout`, `preRender`, redirections | every page; the modules, for roles |
| Course coordinators (`modules/sie/control/CoordenacaoBean`) | session bean: filter, list, professors of the dialog | `retrieve`, `create`, `filterProfessores`, `persist`, `delete` | table `admin_coordenacao`; logins read it for the role COORDENADOR |
| Loading of the SIE (`modules/sie/dao/impl`, seven `init()`) | maps by id and by key, in memory | one `init()` per DAO, run at startup | each other, the folders of spreadsheets |
| SIE queries (six beans of `modules/sie/control`) | session bean: filter, list | `retrieve`, sorting, two dialogs | `SessionBean` for the user's courses, the DAOs |
| SieOrmAspect, converters, suggestions, `_Bean`, SIE services | none of their own | - | - |

How they interact: a request passes the filters, finds or builds the page bean
of its session, which asks the `SessionBean` it was given when it was built,
and calls a DAO. Sessions share only the database tables and the SIE maps; the
tabs of one session share its beans; a page on the screen and the bean behind
it agree only where the last answer redrew the page. There are no messages or
threads of the application itself: concurrency is that of HTTP requests.

What is hard: lists kept in a session while other sessions write the table; an
object under edition shared by tabs; buttons that reach the server as positions
in a list; a commit whose answer is lost; sessions that expire, are logged into
twice or hold beans older than the login; redirections answered to an
XMLHttpRequest; loaders that depend on each other and on the order of files.
The list with its lines is under `hazards` in `PROJECT.json`.

What makes each component correct:

- Seminars: no room booked twice; a save is checked against the bookings there
  are; what is saved is what the dialog was opened on.
- Monitoring classes: refused values never reach the table.
- Tables: ids given out once, one request writes one row, no row comes back.
- Session: the menu agrees with the filter; pages work for who is logged in;
  redirections end; messages do not stay.
- Coordinators: the row or professor acted on is the one whose button was pressed.
- Loading: what the rows say plainly is all known, with no dangling reference,
  whatever the order, or the start is given up.
- Queries: all and only what was asked for, within the user's courses.

## 2. Modules

One HTTP request is one atomic step everywhere: requests of tabs interleave as
wholes. A bean built on demand is built within the step.

| module | models | extends / instantiates |
|---|---|---|
| `Cadastro` | abstract table: insert, update, remove, waste an id | |
| `Agenda` | abstract booking: check against the bookings of the moment and book | `Horario` |
| `Horario` | the record of a seminar, `hasScheduleConflict`, and the overlap relation it is compared with | |
| `Tela` | the screen shared by seminars and monitoring: table, bean, dialogs, failures | instantiates `Cadastro` |
| `Seminario` | `SeminarioBean` and its page: validations, `today` | `Tela`, `Horario`; instantiates `Agenda` |
| `Monitoria` | `TurmaMonitoriaBean` and its page | `Tela` |
| `Sessao` | filters, login, logout, messages and redirections of one session and its tabs | |
| `Coordenacao` | `CoordenacaoBean`, its page and the logins that read its table | instantiates `Cadastro` |
| `Importacao` | the start of the server: seven loaders over three folders | |
| `Consulta` | six query pages, and who is logged in, in one HTTP session | |
| `MC*` | constants and instances for TLC | the module each one names |
| `*Proofs` | theorems and proofs | the module each one names |

### Tela, Seminario, Monitoria

`tabela` and `proximo` are the table and its auto-increment counter, `bean` the
page bean of each session (its list, keyed by id because `equals()` compares
ids; the id of the object under edition; whether that object is an element of
the list), `dialogo` what each tab edits. `update(x)` makes the element itself
the object under edition, so a submitted form changes the list before any
validation (`Submetido`). `refresh()` replaces the list by fresh objects and
leaves the object under edition outside it (`Refrescado`). `Grava` has the three
outcomes of the end of `persist()`: everything done; the row written, the dialog
hidden and the reading failed; the row written and the answer lost. `NaoGrava`
has no row with that id, no database, and an insert rolled back after the object
received its id. `AbrePagina` and `SaiDaPagina` drop the bean first because menu
URLs end in `?refresh=true`, which `WipeCacheFilter` answers to.

`Seminario` adds the five refusals of `persist()`, after each of which the list
is read again, and `today`, a field set when the bean is built, apart from
`hoje`, the day it is. `Sala` is the room once letter case is gone; rooms and titles above the
length limits are members of a set. `Monitoria` refuses when the start is after
the end and does not read the list.

### Sessao

`sessionBean` has the username, for each role the user whose data it carries
(`addLoggedRole` keeps data that are there), and the menu. `paginaBean` says of
each page bean whether its `SessionBean` is the one of the session (`"atual"`)
or one a logout has detached (`"antigo"`): `logout()` removes one attribute and
page beans are injected once. `aviso` is `preRenderMessage`. `aba` is what a tab
shows and where it is being redirected; a redirection is answered in one step
and followed in another, and `dentro` marks one that an XMLHttpRequest follows,
whose page nobody sees. `doMenu` records that a page was opened from the menu
and nobody logged in or out since; it is history for one property. What the
messages on the screen say is left out: a page takes the message that waits.
Any page may throw (`Quebra`, and `Login`, `Logout` and `SegueDentro` for the
pages that are drawn there), index and login pages included: the `catch` of
`LoginFilter` then redirects (`Erro`), a user who is logged in to the index page
and anyone else to the login page, whether the `SessionBean` had been built
before the exception or not (`SeConstruido`).

### Coordenacao

`linhas` is `admin_coordenacao` (a MyISAM table with a unique key on professor
and course), `bean` the page bean, `tela` the grid and the dialog list as the
tab shows them. Lists are sorted by course and professor, so a set stands for a
list and a position for the number of smaller elements; courses and professors
are ranks in that order. `Exclui` and `Persiste` look the position up in the
list of the bean, as JSF does. Of each session, `admin` says whether it has the
role of an administrator and `papel` the courses read at login: a login over
another login adds the roles that are missing and keeps the courses that are
there, as `addLoggedRole` does.

### Importacao

One row of a file is one step; `Inicia` chooses any loader whose injected DAOs
are done, `AbreArquivo` any file (`listFiles()` has no order). Each loader has a
map by id and, for some, a map by key. `Id` is `hashCode()`; `Comeca` the prefix
test of the queries, `Ponto` the replacement of slashes in versions. Names are
left out, and a class is its code, year and semester together. A row is used
only when it names one version or one class, `size() == 1` in the code and `UmSo`
here; a row of a student without a subject names the classes of that code in all
subjects. The code therefore drops rows: a version with a slash is kept with
points and asked for as written, and a version that is the beginning of another
has two answers. `Completo` and `TodasAsInscricoes` do not take this over from the
queries: they compare the texts of the rows (`Propria`, `Parece`), promise only
the rows that can be taken in one way (`Clara`), and ask of every object that it is
in the version its row is written with whenever the spreadsheets have that
version. The next state is split into what the starting thread does (`Passo`) and
the start and the stop of the server (`Liga`, `Desliga`).

### Consulta

`sessao` is the content of the attribute `sessionBean`, `vinculo` the
`SessionBean` each page bean was built with, `lista` the list of each bean and
`tela` what a tab shows: the page, the rows and the dialog. A menu link drops the
page bean first (`WipeCacheFilter`), an address that is typed does not
(`Digita`), and a logout leaves page beans and tabs as they are: a bean goes on
asking the `SessionBean` it was built with. `doMenu` in `tela` is history: the page
was opened from the menu and nobody logged in or out since. The SIE data are
constant; the order of a list is arbitrary (`SetToSeqs`) because columns sort it.
The version in a form comes back through `VersaoCursoLabelConverter`, that is, as
the first answer of a prefix query (`Convertidas`).

## 3. Runs

Every `cfg` states the invariants and properties; each property of a passing
run has a mutant in `PROJECT.json` (operators called `Mutant` in the modules)
that a plausible slip in the code would give and that violates it.

| run | instance | shows |
|---|---|---|
| `seminario_uma` | 1 session, 2 tabs, 3 ids, 4 times, two spellings of a room | an object under edition that is an element of the list is one that is there; the list is the table after each request; overlaps are only of one booking inside another; the page implements `Agenda` |
| `seminario_varias` | 2 sessions of 1 tab, 2 ids, times that give bookings one inside the other, 1 failure, 2 days, too long texts | the table implements `Cadastro`; a row is rewritten only from its dialog; a save overlaps a booking, or takes a day that is over, only in the ways `SobreposicaoExplicada` and `DiaVencidoExplicado` name; a list gets old only by a failure or by another session |
| `monitoria_uma` | 1 session, 2 tabs, 2 ids, 2 times, 1 failure | until the failure the list departs from the table only in refused values; only a failure, another session or a refused form makes a list old; `Cadastro` |
| `sessao_menu` | 2 tabs, an administrator, a student and a professor who may become a coordinator, a page of coordinators; every page may fail | menu against filter, pages against login; redirections end, after two at most, and messages end, unless the pages redirected to go on failing; a message waits only for a tab that is on its way |
| `coordenacao_duas` | 2 sessions of 1 tab, logins over logins, 2 professors, 2 ids, 1 failure | the professor chosen is the one inserted; a grid that is the list removes the row of its button; only a search makes grid and list differ; `Cadastro` |
| `importacao_planilhas` | 1-3 files of curricula, 1-2 of the others, every order | the start waits in no circle and ends, ready or down, and down only for a folder that cannot be read; when ready, all that the plain rows say is known and nothing that no row says, with no dangling reference, and nothing read is lost; with ids that differ, no registration of plain rows is lost |
| `consulta_buscas` | 1 tab, 4 users who log in and out, 2 courses, every field filled or not | searches answer the request, stay in the courses of who is logged in, dialogs match rows |
| `seminario_contido` | 1 session, 4 times | **violation**: a booking around another is accepted |
| `seminario_corrida` | 2 sessions, 3 times | **violation**: two sessions book the same time |
| `seminario_abas` | 1 session, 2 tabs | **violation**: a tab saves over the row another tab opened |
| `coordenacao_selecao` | 1 tab, 2 courses | **violation**: after a search the delete button removes another row |
| `importacao_colisao` | registrations with equal hash codes | **violation**: one of them is dropped |

Bounds, and why they are enough. Four times give every order of the ends of two
intervals, three ids two bookings and a third saved against both; two sessions
and one failure give every stale list and lost answer in pairs, and what the
runs show of more of them is proved for seminars and monitoring. `MaxId` bounds
inserts, `MaxFalhas` failures: both are guards. `Digitadas` names the pages whose
address is typed in `Consulta` (one in the run: pages meet only in the session).
No other bound exists. One page is enough for `sessao_menu`: the administrator
may open it, a professor may while he is a coordinator and a student may not, and
pages meet only in the attributes of the session, which are all there; the
theorems are about any pages. `coordenacao_duas` and
`seminario_varias` use the symmetry that exchanges the two sessions together with
their tabs; their properties do not tell sessions apart, and none is about
liveness. `importacao_planilhas` has rows with prefixes (`A`, `AB`; `1`, `10`,
`1.2`), slashes, unknown courses, empty cells, rows and folders, so that rows the
code drops stand beside rows it must keep. In
`consulta_buscas` no version is a prefix of another of the same course:
otherwise the converter above may choose the other one, and `BuscasAtendidas`
does not hold. `DialogoDaEscolhida` is about one tab: a second one may sort the
list under the first.

The one-session runs check what holds there alone: `ListaEmDia`,
`SemSobreposicaoParcial` and `ImplementaAgenda` fail with two sessions or a
failure, which is what `seminario_corrida` is about.

**Fairness.** Two modules have any. `FairSpec` of `Sessao`: a browser that was
redirected sends the next request (weak fairness of `Segue` or `SegueDentro`).
`FairSpec` of `Importacao`: the thread that starts the server waits for nobody
(weak fairness of `Passo`). Users, the container, the database and whoever starts
and stops the server are under no obligation. `PartidaTermina` rests on nothing
else. `RedirecionamentoAcaba` and `AvisoAcaba` have one premise in their formula,
that the pages redirections go to do not fail for ever (`<>[][~FalhaAoSeguir]_vars`;
pages asked for in other ways may). It is not a fairness the code gives, and
without it they do not hold: TLC finds an index page that fails and is redirected
to itself, and a login page likewise. What is left to show is the part of the
filters: that they alone, with people logging in and out and sessions expiring
between a redirection and the request that follows it, never go on redirecting.

Deadlock is checked in every run: users can always do something.

### Findings

1. `hasScheduleConflict()` misses a listed seminar that lies strictly inside the
   new one (`seminario_contido`). `LacunaDoConflito` proves this is the only gap
   of the test.
2. The conflict test reads the session's list, and the table has no constraint
   (`seminario_corrida`). `SobreposicoesExplicadas` proves that there are no
   other ways: behind every overlap is a booking that is contained, or a list
   that did not show it as the table has it.
3. Tabs share the object under edition (`seminario_abas`). `GravaOAberto` proves
   that without a second tab it does not happen.
4. `coordenacoes.xhtml`: the search button does not redraw the grid, and the
   buttons of the rows are positions (`coordenacao_selecao`). `RemoveDoBotao`
   proves that a grid that is the list of the bean removes its own row, and
   `GradeSoEnvelheceNaBusca` that, with one tab, only the search leaves another
   grid on the screen: redrawing it there would be enough.
5. Registrations are kept by the hash code of their key (`importacao_colisao`;
   the instance is modelled on 0000057BCC in GCC1106 of 2016.2 and 0000430BCC in
   GCC1141 of 2017.2, both of class 610001). `SoOsIdsTiram` proves that with
   different ids the registration is there whenever a row of the student and one
   of the subject can be taken in one way. The registrations of students and in
   subjects whose rows are dropped are lost with any ids: see below.

### Other disagreements

Read in the code, present in the models, without a run of their own:

- `SeminarioBean.today` is set when the bean is built: a page left open past
  midnight accepts days that are over, and nothing else does
  (`DiaVencidoExplicado`).
- A failure after the commit leaves the list without the new seminar, and the
  next save of the same session is checked against that list.
- `TurmaMonitoriaBean.persist()` accepts equal times, although its message asks
  for the end to be after the start.
- A second login without a logout adds to the roles of the first user and keeps
  the data of the ones they share.
- After a logout and a login a page opened by its address, not from the menu,
  still asks the `SessionBean` of the first login.
- A message set while an XMLHttpRequest is turned away is taken by the page that
  request is redirected to, which nobody sees.
- The `catch` of `LoginFilter` redirects to pages that pass it too: an index page
  that fails for a user who is logged in is redirected to itself, and so is a
  login page that fails, for as long as they fail.
- `VersaoCursoDaoImpl` keeps versions with points for slashes (130), and
  `DisciplinaDaoImpl` (155) and `AlunoDaoImpl` (143) ask for them as the row writes
  them: the subjects and students of a version with a slash are dropped.
- Versions are found by the beginning of version and course: a row that has more
  than one answer is dropped, even when one of them is the very version the row
  writes; and when none is, and one version begins like it, the subject or student
  goes into that one.
- The coordinations of a professor are those of the moment of the login.
- The constructor `TurmaBean` uses leaves `cursos` null: the search of a
  coordinator or professor ends in a `NullPointerException` and an empty list.
- `retrieveByDisciplinaFilter()` compares neither the code, nor the period, nor
  the option of the form.

## 4. Proofs

Checked by `tlapm`; no step is left without a proof.

| module | theorem | assumption |
|---|---|---|
| `CadastroProofs` | `CadastroNaoRessuscita`: a used id without a row never has one again | - |
| `SeminarioProofs` | `Tipos`; `TabelaECadastro`: the page implements `Cadastro` | - |
| | `GravaOAberto`: `SalvaOQueAbriu` | one tab per session |
| | `LacunaDoConflito`: an overlap escapes the test exactly when the new booking strictly contains the listed one | - |
| | `SobreposicoesExplicadas`: `SobreposicaoExplicada`; `DiasVencidosExplicados`: `DiaVencidoExplicado`; `SoPorFora`: `SoPorForaEnvelhece` | - |
| | `ListaAtual`, `SoContencao`, `PaginaEAgenda` | one session, no failures |
| `MonitoriaProofs` | `Tipos`, `TabelaECadastro`; `SoRecusa`: `SoRecusaEnvelhece` | - |
| | `GravaOAberto` | one tab per session |
| | `SoRecusadas`: `DivergeSoRecusada`, whose formula speaks of the time before a failure | one session |
| `SessaoProofs` | `Tipos`, `MenuPassa`, `PaginaEhDoUsuario` | - |
| | `AvisoDeQuemVai`: `AvisoTemDestino`; `DuasRedirecoes`: `NoMaximoDuas` | - |
| `CoordenacaoProofs` | `Tipos`; `TabelaECadastro`: the table implements `Cadastro` | - |
| | `PersisteDoBotao`: `PersisteOEscolhido` | one tab per session |
| | `RemoveDoBotao`: `RemoveDaGrade` | - |
| | `GradeSoEnvelheceNaBusca`: `SoABuscaDesatualiza` | one tab per session |
| `ImportacaoProofs` | `SempreHaQuemComece`: `NinguemEspera`; `NadaPelaMetade`: `TudoOuNada` | - |
| | `NadaSai`: `Permanece`; `NadaPendurado`: `Referencias` | no two keys that the spreadsheets of one start give have one id (`IdsDiferentes`) |
| | `TudoLido`: `Completo`; `SoOsIdsTiram`: `TodasAsInscricoes` | the same; a text begins with itself, and what a text without slashes begins with has none (`TextosComuns`) |
| `ConsultaProofs` | `Tipos`; `MostraSoOsSeus`: `SoDosSeusCursos` | - |
| | `AtendeAsBuscas`: `BuscasAtendidas` | texts are not null, chosen fields not empty, a text begins with itself and has in it what it begins with, no version is found by the label of another |
| | `DialogoCerto`: `DialogoDaEscolhida` | one tab |

`TelaProofs` has the lemmas the two screens share. Apart from the column above
the theorems assume only the `ASSUME`s of the modules, which say that bounds are
naturals, that courses, professors and the SIE data are finite, and that `Nulo`
and `Fechado` are none of the values they stand beside.

The argument for one session: saves are checked against the list, so nothing can
be said of the table unless the list is the table. The inductive invariant is
`TypeOK`, `ListaEmDia`, "the object under edition has a row" (otherwise a save
would be an update of nothing), "times are in order" and
`SemSobreposicaoParcial`. Each action either leaves list and table alone,
replaces the list by the table, or writes the table and then reads it; the
element that a form has changed in the list is excluded from its own conflict
test and overwritten by the reading after it. `PaginaEAgenda` follows: a save
accepted by the list is accepted by the table.

Without that setting lists are old, and what is proved is how a save goes wrong.
`SobreposicoesExplicadas` takes a row the step changed (`SalvaExplicado`): a
session saved it, and its list had no conflict with it. If the list shows the
overlapped booking as the table has it, `LacunaDoConflito` leaves only
containment; the one invariant needed is that times are in order
(`HorasEmOrdem`), because every save refuses the others. `DiasVencidosExplicados`
is the same of the day. `SoPorFora` says where old lists come from: every request
leaves its session the list it had or reads the table, unless the database fails
(`UmBeanMuda`). The hard case is a save of a row that another session deleted,
which throws after the form has filled the element of the list; it leaves a list
that was the table as it was because an object under edition that is an element
is in the list (`ElementosCertos`), so that the row had to be there.

`TabelaECadastro` needs no such setting: `Gravavel` allows an update only of a
row there is, and an insert only under the next id. `MenuPassa` strengthens
`MenuAutorizado` to "every link is of a role in the same `SessionBean`", which
only a login can affect and which `addLoggedRole` preserves because it never
removes a role. `PaginaEhDoUsuario` is inductive with `TypeOK`: a page counts as
opened from the menu only in a step that wiped the page beans, and a logout,
the one step that makes beans old, makes every tab stop counting.

`AvisoTemDestino` is inductive too, but not action by action: a request that
takes the message may end the way of its own tab while others go on, so the step
is shown to empty the attribute, to leave some tab on its way, or to touch
neither. `NoMaximoDuas` rests on what `LoginFilter` lets pass: the login page
always, the index page whoever is logged in (`BarraDestino`); and on where its
`catch` sends a page that fails, which passes at that moment (`ErroDestino`). It
bounds what `RedirecionamentoAcaba` says ends.

`SoRecusadas` strengthens its property to `DivergeInv`: no row has refused values,
and an object under edition that is an element of the list has a row, or a
submitted form would change an element that stands for none. A refused form
changes that element and nothing else; every other request reads the list again.
`SoRecusa` says the same for any sessions and failures, as `SoPorFora` does for
seminars; the two share the lemmas of `TelaProofs`, and differ in the refusals,
after which seminars read the list and monitoring classes do not.

`TabelaECadastro` of the coordinators reads the set of rows as a function of ids,
which is one because ids are unique, `TabelaInv`: every id is below the counter,
no id has two rows and no pair of professor and course has two rows, the unique
key of the table. `PersisteDoBotao` shows that with one tab the list of
professors on the screen is that of the bean (`DialogoInv`), and that a position
in a finite ordered set names one element (`PosicaoUnica`), so that the position
the button sends finds the professor the button stood beside.

`RemoveDoBotao` is the same argument for rows: the table and the lists of beans
are finite and have one row for each pair of course and professor (`ListasInv`),
so that the number of smaller rows tells the rows of a list apart
(`LinhaDaPosicao`), and a step that takes a row out is a delete of some tab.
`GradeSoEnvelheceNaBusca` shows of every request but the search that it draws the
grid from the list it leaves, or leaves both as they are.

`ImportacaoProofs` rests on two invariants. `ChavesDadas`: every key in a map was
given by a row of the spreadsheets of this start, so the assumption on ids needs
to speak of those alone. `MapasJuntos`: where a loader has two maps they have the
same keys, so that a key missing from one of them displaces nothing in the
other. Every step then stops the server, changes no map or adds one object
(`PassoDosMapas`), and that object is what the row says as the maps of the other
loaders stand (`LinhaDiz`): it refers to objects that are in them (`DizReferido`).

`TudoLido` says that a ready server knows what the rows say and nothing else. Its
invariant has two parts. `Ordem`: a loader that began has its dependencies done,
and what is left of its files and rows is of its own folder. `Dados`: every object
in a map, and every course of a professor, is what some row says; and of every
row of a loader that began, either it was not read yet or what it says is there.
What a row says depends on the maps of the injected DAOs alone (`DizFirme`), and
these do not change any more once the loader began, which is where the order of
construction is needed. That the first row of a key wins does not matter for the
keys; `Completo` asks of the rest only that some row says it. The last steps go
from the objects back to the texts. The versions a query gives are those of the
spreadsheets that begin as the row says (`VersoesParecidas`), and one object stands
for each (`ChaveUnica`). A row that names one object while its own version is in
the spreadsheets named that one: having an answer, the row has no slash, and then
its own version is an answer too (`PropriaParece`, `DizVersaoPropria`). A clear row
has that answer only, so what it says is there.

`SoOsIdsTiram` follows from `TudoLido`: the clear rows put the student and the
subject in the maps, the row of the class its class, and a row that names student,
subject and class has one answer.

`MostraSoOsSeus` strengthens its property to `DoLogin`: the bean of a page opened
from the menu since the last login, if there is one, was built with the
`SessionBean` of the session, and its list, like the screen, has only what that
one may see. Menu links build the bean anew; logins and
logouts, which make beans stale, make every tab stop counting as opened from the
menu. `DialogoCerto` needs that the list of the bean whose page the only tab
shows is the one on the screen, or was left empty by a search that threw
(`UmaTela`).

`AtendeAsBuscas` compares each query of the DAOs with a definition of its own
(`Pedidos`): field by field, what a form carries to a filter selects what the
form asked for (`CampoDigitado`, `CampoEscolhido`), an empty field nothing.
`BuscaAtendida` adds `DoLogin`: the bean of the page was built with the
`SessionBean` of the user who asks, so its courses are the user's. The version is
where the assumption is used, since its label comes back as the first answer of a
prefix query; the data and forms of `consulta_buscas` satisfy it.

Of what a start does, `Ordem` alone gives that the loaders wait in no circle
(`SempreHaQuemComece`). `NadaPelaMetade` follows the files: of the folder of the
running loader, a file is still to be opened, or was not empty and has each of its
rows readable or still to be read (`LidoInteiro`); so a loader that ends has read
all, and the row or file at which a start is given up belongs to a folder that
cannot be read.

Only model-checked: liveness, which the prover does not reach. What
`RedirecionamentoAcaba`, `AvisoAcaba` and `PartidaTermina` need of the states is
proved as `NoMaximoDuas`, `AvisoTemDestino` and `NinguemEspera`; that the step
that is left to take is enabled and taken, and that steps run out, is what TLC
checks.

## 5. Not modelled

- `SieOrmAspect`: copies ids and SIE objects by reflection around service calls;
  `Coordenacao` assumes its result, a row with its course and professor.
  A row whose course has left the spreadsheets since it was saved has null there,
  and sorting two such rows throws and leaves the list partly sorted: the set that
  stands for a sorted list in `Coordenacao` cannot say so, and the courses and
  professors are constant in it.
- The converters, `_Bean` (messages, table resets), the SIE
  services: no state. A form that does not convert reaches no bean.
- Suggestions, `retrieveByScanning`, `retrieveByNome`, the LIKE queries of the
  Hibernate DAO, exporters, sorting inside a dialog: string matching and output.
- Two requests of one session at the same instant inside an unsynchronised bean:
  requests are atomic here.
- MySQL, the vendored distributions, the spreadsheets and UML files. The schema
  is read for its keys; SQL and the browser are modelled from how the code uses
  them. The only C files of the repository are the headers under
  `src/sca/mysql/include`, part of a MySQL distribution that the Java program
  never compiles or includes: they have no behaviour of this system to model.

## 6. Plan

Done, in this order: `Cadastro`, `Horario`, `Agenda`, `Tela`, `Seminario` with
its proofs, `Monitoria`, `Sessao` with its proofs, `Coordenacao`, `Importacao`,
`Consulta`; then logins and logouts under the queries, the end of the start of
the server, and the proofs of `Consulta`, `Coordenacao`, `Importacao` and the
lists of `Monitoria`; then how overlaps, old days and wrong buttons come about, what
searches answer, the safety side of redirections and of the start, what makes the
lists of `Monitoria` old, and pages that fail on the way of a redirection.

What would come next, the most valuable first:

1. Expired views and logouts in `Tela`, as `Sessao` has them, so that a save of
   a page older than the login can be stated.
2. Spreadsheets that change between two starts, under the rows of `Coordenacao`.
3. Buttons of `seminario.xhtml` as positions in the page, as in `Coordenacao`.
4. A run for the rows that loading drops (versions with slashes, versions that
   begin another), once the documentation says which of them it should keep.
