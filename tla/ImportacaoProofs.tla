-------------------------- MODULE ImportacaoProofs --------------------------
(***************************************************************************)
(* What TLAPS proves of Importacao, for any spreadsheets, order of files   *)
(* and of loaders, when no two keys that the spreadsheets of one start can *)
(* give have the same id.                                                  *)
(***************************************************************************)
EXTENDS Importacao, SequenceTheorems, TLAPS

\* The rows of some files.
DasFolhas(S) == UNION { { f[n] : n \in 1..Len(f) } : f \in S }

\* The rows with cells that the loader l finds in the spreadsheets p.
LinhasDe(p, l) == DasFolhas(p[Pasta[l]]) \ {Vazia, Ilegivel}

\* k is a key that the spreadsheets p can give to the loader l.
ChaveEm(p, l, k) ==
    \E r \in LinhasDe(p, l) :
       \/ l = "curso" /\ k = r.curso
       \/ l = "versao" /\ k = <<Ponto(r.versao), r.curso>>
       \/ l = "disciplina" /\ k = r.disc
       \/ l = "professor" /\ k = r.prof
       \/ l = "turma" /\ k = <<r.disc, r.turma>>
       \/ l = "aluno" /\ k = r.aluno
       \/ /\ l = "inscricao"
          /\ \E o \in LinhasDe(p, "turma") :
                /\ o.turma = r.turma /\ r.disc \in {o.disc, Nulo}
                /\ k = <<r.aluno, <<o.disc, o.turma>>>>

\* Two keys that the spreadsheets of one start give to a loader have
\* different ids.  Nothing is assumed of the ids of other keys.
IdsDiferentes ==
    \A p \in Conteudos, l \in Carregadores : \A j, k :
       ChaveEm(p, l, j) /\ ChaveEm(p, l, k) /\ Id(l, j) = Id(l, k) => j = k

\* A text begins with itself, and what a text without slashes begins with has
\* none.
TextosComuns ==
    /\ \A x : Comeca(x, x)
    /\ \A x, y : Comeca(Ponto(x), y) => Ponto(y) = y

\* The loaders with two maps.
ComChave == {"curso", "disciplina", "professor", "aluno"}

\* Both maps have the same keys, so that what is not in one is not in the other.
MapasJuntos ==
    /\ porId = [l \in Carregadores |-> porId[l]]
    /\ porChave = [l \in Carregadores |-> porChave[l]]
    /\ \A l \in ComChave : Chaves(porId[l]) = Chaves(porChave[l])

\* The maps hold keys of the spreadsheets, and none before there are any.
ChavesDadas ==
    \A l \in Carregadores : \A x \in porId[l] :
       planilhas # Nulo /\ ChaveEm(planilhas, l, x.chave)

-----------------------------------------------------------------------------
(* The order in which DAOs, files and rows are done with                    *)

\* The rows that the running loader did not read yet.
Pendentes == DasFolhas(restam) \cup { linhas[n] : n \in 1..Len(linhas) }

\* The loaders that ended or are running.
Comecados == prontos \cup ({atual} \ {Nulo})

\* A loader begins after those it is injected with, and reads its own folder.
Ordem ==
    /\ planilhas = Nulo => Comecados = {}
    /\ planilhas # Nulo => planilhas \in Conteudos
    /\ prontos \subseteq Carregadores /\ atual \in (Carregadores \ prontos) \cup {Nulo}
    /\ \A l \in Comecados : Depende[l] \subseteq prontos
    /\ IF atual = Nulo
       THEN linhas = <<>>
       ELSE /\ restam \subseteq planilhas[Pasta[atual]]
            /\ linhas \in Seq(DasFolhas(planilhas[Pasta[atual]]))

LEMMA Folha ==
    ASSUME NEW S, NEW f \in S, f \in Seq({ f[n] : n \in DOMAIN f })
    PROVE  f \in Seq(DasFolhas(S))
<1>1. f \in [1..Len(f) -> { f[n] : n \in DOMAIN f }] /\ Len(f) \in Nat
  OBVIOUS
<1>2. \A n \in 1..Len(f) : f[n] \in DasFolhas(S)
  BY DEF DasFolhas
<1>3. f \in [1..Len(f) -> DasFolhas(S)]
  BY <1>1, <1>2
<1> QED BY <1>1, <1>3, SeqDef

LEMMA CabecaECauda ==
    ASSUME NEW S, NEW s \in Seq(S), s # <<>>
    PROVE  /\ Head(s) \in S /\ Tail(s) \in Seq(S)
           /\ \A n \in 1..Len(s) :
                 s[n] = Head(s) \/ s[n] \in { Tail(s)[m] : m \in 1..Len(Tail(s)) }
<1>1. /\ Head(s) \in S /\ Tail(s) \in Seq(S) /\ Head(s) = s[1]
      /\ Len(s) \in Nat /\ Len(Tail(s)) = Len(s) - 1
      /\ \A m \in 1..Len(Tail(s)) : Tail(s)[m] = s[m + 1]
  OBVIOUS
<1>2. ASSUME NEW n \in 1..Len(s), n # 1
      PROVE  s[n] \in { Tail(s)[m] : m \in 1..Len(Tail(s)) }
  <2>1. n - 1 \in 1..Len(Tail(s)) /\ (n - 1) + 1 = n
    BY <1>1, <1>2
  <2>2. Tail(s)[n - 1] = s[n]
    BY <1>1, <2>1
  <2> QED BY <2>1, <2>2
<1> QED BY <1>1, <1>2

LEMMA OrdemSempre == Spec => []Ordem
<1>1. Init => Ordem
  BY ImportacaoAssumption DEF Init, Ordem, Comecados
<1>2. ASSUME Ordem, [Next]_vars PROVE Ordem'
  <2>1. ASSUME NEW l \in Carregadores, Inicia(l) PROVE Ordem'
    <3>1. /\ l # Nulo /\ planilhas' = planilhas /\ prontos' = prontos /\ atual' = l
          /\ restam' = planilhas[Pasta[l]] /\ linhas' = <<>> /\ planilhas # Nulo
          /\ l \notin prontos /\ Depende[l] \subseteq prontos /\ atual = Nulo
      BY <1>2, <2>1, ImportacaoAssumption DEF Inicia, Ordem
    <3>2. Comecados' = Comecados \cup {l}
      BY <3>1 DEF Comecados
    <3>3. <<>> \in Seq(DasFolhas(planilhas[Pasta[l]]))
      OBVIOUS
    <3>4. linhas' \in Seq(DasFolhas(planilhas'[Pasta[atual']]))
      BY <3>1, <3>3
    <3>5. Seq(DasFolhas(planilhas[Pasta[atual]]))' = Seq(DasFolhas(planilhas'[Pasta[atual']]))
      BY DEF DasFolhas
    <3> QED BY <1>2, <3>1, <3>2, <3>4, <3>5 DEF Ordem
  <2>2. ASSUME NEW f \in restam, AbreArquivo(f) PROVE Ordem'
    <3>1. f \in planilhas[Pasta[atual]] /\ planilhas \in Conteudos /\ atual \in Carregadores
      BY <1>2, <2>2 DEF AbreArquivo, Ordem, Comecados
    <3>2. f \in Seq({ f[n] : n \in DOMAIN f })
      BY <3>1, ImportacaoAssumption
    <3>3. f \in Seq(DasFolhas(planilhas[Pasta[atual]]))
      BY <3>1, <3>2, Folha
    <3>4. /\ planilhas' = planilhas /\ prontos' = prontos /\ atual' = atual
          /\ restam' \subseteq restam /\ linhas' = f /\ atual # Nulo
      BY <2>2 DEF AbreArquivo
    <3>5. Seq(DasFolhas(planilhas[Pasta[atual]]))' = Seq(DasFolhas(planilhas[Pasta[atual]]))
      BY <3>4 DEF DasFolhas
    <3>6. Comecados' = Comecados
      BY <3>4 DEF Comecados
    <3> QED BY <1>2, <3>3, <3>4, <3>5, <3>6 DEF Ordem
  <2>3. CASE LeLinha
    <3>1. /\ planilhas' = planilhas /\ prontos' = prontos /\ atual' = atual
          /\ restam' = restam /\ linhas' = Tail(linhas) /\ linhas # <<>> /\ atual # Nulo
      BY <1>2, <2>3 DEF LeLinha, Ordem
    <3>2. linhas \in Seq(DasFolhas(planilhas[Pasta[atual]]))
      BY <1>2, <3>1 DEF Ordem
    <3>3. Tail(linhas) \in Seq(DasFolhas(planilhas[Pasta[atual]]))
      BY <3>1, <3>2, CabecaECauda
    <3>5. Seq(DasFolhas(planilhas[Pasta[atual]]))' = Seq(DasFolhas(planilhas[Pasta[atual]]))
      BY <3>1 DEF DasFolhas
    <3>6. Comecados' = Comecados
      BY <3>1 DEF Comecados
    <3> QED BY <1>2, <3>1, <3>3, <3>5, <3>6 DEF Ordem
  <2>4. CASE Termina
    <3>1. /\ planilhas' = planilhas /\ prontos' = prontos \cup {atual} /\ atual' = Nulo
          /\ linhas' = <<>> /\ atual # Nulo
      BY <2>4 DEF Termina
    <3>2. Comecados' = Comecados /\ atual \in Carregadores /\ atual \in Comecados
      BY <1>2, <3>1 DEF Comecados, Ordem
    <3> QED BY <1>2, <3>1, <3>2 DEF Ordem
  <2>5. CASE Liga
    <3>1. /\ planilhas' \in Conteudos /\ planilhas' # Nulo /\ planilhas = Nulo
          /\ prontos' = prontos /\ atual' = atual /\ linhas' = linhas
      BY <2>5, ImportacaoAssumption DEF Liga
    <3>2. Comecados' = {} /\ atual = Nulo
      BY <1>2, <3>1 DEF Comecados, Ordem
    <3> QED BY <1>2, <3>1, <3>2 DEF Ordem
  <2>6. CASE Desliga
    BY <2>6, ImportacaoAssumption DEF Desliga, Ordem, Comecados
  <2>7. CASE Aborta \/ UNCHANGED vars
    <3>1. UNCHANGED <<planilhas, prontos, atual, restam, linhas>>
      BY <2>7 DEF Aborta, vars
    <3>2. Comecados' = Comecados
      BY <3>1 DEF Comecados
    <3>3. Seq(DasFolhas(planilhas[Pasta[atual]]))' = Seq(DasFolhas(planilhas[Pasta[atual]]))
      BY <3>1 DEF DasFolhas
    <3> QED BY <1>2, <3>1, <3>2, <3>3 DEF Ordem
  <2> QED BY <1>2, <2>1, <2>2, <2>3, <2>4, <2>5, <2>6, <2>7 DEF Next, Passo
<1> QED BY <1>1, <1>2, PTL DEF Spec

\* While some DAOs are to come one can be built (Importacao.NinguemEspera).
THEOREM SempreHaQuemComece == Spec => []NinguemEspera
<1>1. ASSUME NEW S \in SUBSET Carregadores, S # Carregadores
      PROVE  \E l \in Carregadores \ S : Depende[l] \subseteq S
  <2>1. /\ Depende["curso"] = {} /\ Depende["versao"] = {"curso"}
        /\ Depende["professor"] = {"curso"} /\ Depende["disciplina"] = {"versao"}
        /\ Depende["aluno"] = {"versao"} /\ Depende["turma"] = {"disciplina", "professor"}
        /\ Depende["inscricao"] = {"aluno", "turma"}
    BY DEF Depende
  <2>2. CASE "curso" \notin S
    BY <2>1, <2>2 DEF Carregadores
  <2>3. CASE "curso" \in S /\ ("versao" \notin S \/ "professor" \notin S)
    BY <2>1, <2>3 DEF Carregadores
  <2>4. CASE {"versao", "professor"} \subseteq S /\ ("disciplina" \notin S \/ "aluno" \notin S)
    BY <2>1, <2>4 DEF Carregadores
  <2>5. CASE {"disciplina", "professor"} \subseteq S /\ "turma" \notin S
    BY <2>1, <2>5 DEF Carregadores
  <2>6. CASE {"aluno", "turma"} \subseteq S /\ "inscricao" \notin S
    BY <2>1, <2>6 DEF Carregadores
  <2>7. Carregadores \ S # {}
    BY <1>1
  <2> QED BY <2>2, <2>3, <2>4, <2>5, <2>6, <2>7 DEF Carregadores
<1>2. Ordem => NinguemEspera
  BY <1>1 DEF Ordem, NinguemEspera
<1> QED BY <1>2, OrdemSempre, PTL

\* Of the files that the running loader opened, what it is done with could be
\* read.
LidoInteiro ==
    /\ \A l \in prontos : Inteira(Pasta[l])
    /\ falhou => planilhas # Nulo /\ ~Inteira(Pasta[atual])
    /\ atual # Nulo =>
          \A f \in planilhas[Pasta[atual]] \ restam :
             /\ f # <<>>
             /\ \A n \in 1..Len(f) :
                   Legivel(f[n], Pasta[atual]) \/ f[n] \in { linhas[m] : m \in 1..Len(linhas) }

\* A DAO that ended read its whole folder, and a start is given up only for a
\* folder that cannot be read (Importacao.TudoOuNada; the exceptions of the
\* init()).
THEOREM NadaPelaMetade == Spec => []TudoOuNada
<1>1. Init => LidoInteiro
  BY DEF Init, LidoInteiro
<1>2. ASSUME Ordem, LidoInteiro, [Next]_vars PROVE LidoInteiro'
  <2>0. planilhas' = planilhas => \A p : Inteira(p)' <=> Inteira(p)
    BY DEF Inteira, Legivel
  <2>1. ASSUME NEW l \in Carregadores, Inicia(l) PROVE LidoInteiro'
    <3>1. /\ planilhas' = planilhas /\ prontos' = prontos /\ atual' = l
          /\ restam' = planilhas[Pasta[l]] /\ falhou' = falhou /\ ~falhou
      BY <2>1 DEF Inicia
    <3>2. planilhas'[Pasta[atual']] \ restam' = {}
      BY <3>1
    <3> QED BY <1>2, <2>0, <3>1, <3>2 DEF LidoInteiro
  <2>2. ASSUME NEW f \in restam, AbreArquivo(f) PROVE LidoInteiro'
    <3>1. /\ planilhas' = planilhas /\ prontos' = prontos /\ atual' = atual
          /\ restam' = restam \ {f} /\ linhas' = f /\ linhas = <<>> /\ f # <<>>
          /\ atual # Nulo /\ falhou' = falhou /\ ~falhou
      BY <2>2 DEF AbreArquivo
    <3>2. ASSUME NEW g \in planilhas[Pasta[atual]] \ restam'
          PROVE  /\ g # <<>>
                 /\ \A n \in 1..Len(g) :
                       Legivel(g[n], Pasta[atual]) \/ g[n] \in { f[m] : m \in 1..Len(f) }
      <4>1. CASE g = f
        BY <3>1, <4>1
      <4>2. CASE g # f
        <5>1. g \in planilhas[Pasta[atual]] \ restam /\ Len(linhas) = 0
          BY <3>1, <3>2, <4>2
        <5> QED BY <1>2, <3>1, <5>1 DEF LidoInteiro
      <4> QED BY <4>1, <4>2
    <3>3. \A x, p : Legivel(x, p)' <=> Legivel(x, p)
      BY DEF Legivel
    <3> QED BY <1>2, <2>0, <3>1, <3>2, <3>3 DEF LidoInteiro
  <2>3. CASE LeLinha
    <3>1. /\ planilhas' = planilhas /\ prontos' = prontos /\ atual' = atual /\ restam' = restam
          /\ linhas' = Tail(linhas) /\ linhas # <<>> /\ atual # Nulo
          /\ falhou' = falhou /\ ~falhou
          /\ Legivel(Head(linhas), Pasta[atual])
      BY <1>2, <2>3, ImportacaoAssumption DEF LeLinha, Ordem, Legivel
    <3>2. linhas \in Seq(DasFolhas(planilhas[Pasta[atual]]))
      BY <1>2, <3>1 DEF Ordem
    <3>3. \A n \in 1..Len(linhas) :
             linhas[n] = Head(linhas) \/ linhas[n] \in { linhas'[m] : m \in 1..Len(linhas') }
      BY <3>1, <3>2, CabecaECauda
    <3>4. ASSUME NEW g \in planilhas[Pasta[atual]] \ restam
          PROVE  /\ g # <<>>
                 /\ \A n \in 1..Len(g) :
                       \/ Legivel(g[n], Pasta[atual])
                       \/ g[n] \in { linhas'[m] : m \in 1..Len(linhas') }
      <4>1. /\ g # <<>>
            /\ \A n \in 1..Len(g) :
                  Legivel(g[n], Pasta[atual]) \/ \E m \in 1..Len(linhas) : g[n] = linhas[m]
        BY <1>2, <3>1, <3>4 DEF LidoInteiro
      <4> QED BY <3>1, <3>3, <4>1
    <3>5. \A x, p : Legivel(x, p)' <=> Legivel(x, p)
      BY DEF Legivel
    <3> QED BY <1>2, <2>0, <3>1, <3>4, <3>5 DEF LidoInteiro
  <2>4. CASE Termina
    <3>1. /\ planilhas' = planilhas /\ prontos' = prontos \cup {atual} /\ atual' = Nulo
          /\ linhas = <<>> /\ restam = {} /\ planilhas[Pasta[atual]] # {} /\ atual # Nulo
          /\ falhou' = falhou /\ ~falhou
      BY <2>4 DEF Termina
    <3>2. Inteira(Pasta[atual])
      <4>1. Len(linhas) = 0
        BY <3>1
      <4> QED BY <1>2, <3>1, <4>1 DEF LidoInteiro, Inteira
    <3> QED BY <1>2, <2>0, <3>1, <3>2 DEF LidoInteiro
  <2>5. CASE Aborta
    <3>1. UNCHANGED <<planilhas, prontos, atual, restam, linhas>> /\ falhou' /\ atual # Nulo
      BY <2>5 DEF Aborta
    <3>2. /\ planilhas # Nulo /\ restam \subseteq planilhas[Pasta[atual]]
          /\ linhas \in Seq(DasFolhas(planilhas[Pasta[atual]]))
      BY <1>2, <3>1 DEF Ordem, Comecados
    <3>3. ~Inteira(Pasta[atual])
      <4>1. CASE planilhas[Pasta[atual]] = {} \/ <<>> \in restam
        BY <3>2, <4>1 DEF Inteira
      <4>2. CASE linhas # <<>> /\ ~Legivel(Head(linhas), Pasta[atual])
        <5>1. Head(linhas) \in DasFolhas(planilhas[Pasta[atual]])
          BY <3>2, <4>2, CabecaECauda
        <5>2. PICK f \in planilhas[Pasta[atual]] : \E n \in 1..Len(f) : Head(linhas) = f[n]
          BY <5>1 DEF DasFolhas
        <5> QED BY <4>2, <5>2 DEF Inteira
      <4> QED BY <2>5, <4>1, <4>2 DEF Aborta, Legivel
    <3>4. \A x, p : Legivel(x, p)' <=> Legivel(x, p)
      BY DEF Legivel
    <3> QED BY <1>2, <2>0, <3>1, <3>2, <3>3, <3>4 DEF LidoInteiro
  <2>6. CASE Liga
    <3>1. /\ planilhas = Nulo /\ prontos' = prontos /\ atual' = atual /\ falhou' = falhou
      BY <2>6 DEF Liga
    <3>2. prontos = {} /\ atual = Nulo /\ ~falhou
      BY <1>2, <3>1 DEF Ordem, Comecados, LidoInteiro
    <3> QED BY <3>1, <3>2 DEF LidoInteiro
  <2>7. CASE Desliga
    BY <2>7 DEF Desliga, LidoInteiro
  <2>8. CASE UNCHANGED vars
    <3>1. UNCHANGED <<planilhas, prontos, atual, restam, linhas, falhou>>
      BY <2>8 DEF vars
    <3>2. \A x, p : Legivel(x, p)' <=> Legivel(x, p)
      BY DEF Legivel
    <3> QED BY <1>2, <2>0, <3>1, <3>2 DEF LidoInteiro
  <2> QED BY <1>2, <2>1, <2>2, <2>3, <2>4, <2>5, <2>6, <2>7, <2>8 DEF Next, Passo
<1>3. LidoInteiro => TudoOuNada
  BY DEF LidoInteiro, TudoOuNada
<1> QED BY <1>1, <1>2, <1>3, OrdemSempre, PTL DEF Spec

\* The row that is read is one of the folder of the running loader.
LEMMA LinhaDaPasta ==
    ASSUME Ordem, LeLinha
    PROVE  /\ planilhas \in Conteudos /\ UNCHANGED planilhas
           /\ Head(linhas) \notin {Vazia, Ilegivel} =>
                 Head(linhas) \in LinhasDe(planilhas, atual)
<1>1. linhas # <<>> /\ atual # Nulo /\ UNCHANGED planilhas
  BY DEF LeLinha, Ordem
<1>2. planilhas \in Conteudos
  BY <1>1 DEF Ordem, Comecados
<1>3. linhas \in Seq(DasFolhas(planilhas[Pasta[atual]]))
  BY <1>1 DEF Ordem
<1>4. Head(linhas) \in DasFolhas(planilhas[Pasta[atual]])
  BY <1>1, <1>3, CabecaECauda
<1> QED BY <1>1, <1>2, <1>4 DEF LinhasDe

-----------------------------------------------------------------------------
(* The maps *)

\* e is the one thing a row adds to the maps of the loader l, if anything.
Acrescenta(l, e) ==
    /\ porId' = [porId EXCEPT ![l] = @ \cup {e}]
    /\ IF l \in ComChave THEN porChave' = [porChave EXCEPT ![l] = @ \cup {e}]
                         ELSE UNCHANGED porChave

\* A key of the spreadsheets shares a place of a map with itself alone.
LEMMA LugarProprio ==
    ASSUME IdsDiferentes, ChavesDadas, planilhas \in Conteudos,
           NEW l \in Carregadores, NEW k, ChaveEm(planilhas, l, k)
    PROVE  MesmoId(l, porId[l], k) = {} <=> k \notin Chaves(porId[l])
<1>1. \A x \in porId[l] : Id(l, x.chave) = Id(l, k) <=> x.chave = k
  BY DEF IdsDiferentes, ChavesDadas
<1> QED BY <1>1 DEF MesmoId, Chaves

LEMMA NosDois ==
    ASSUME IdsDiferentes, MapasJuntos, ChavesDadas, planilhas \in Conteudos,
           NEW l \in ComChave, NEW e, ChaveEm(planilhas, l, e.chave),
           e.chave \notin Chaves(porChave[l]), PoeNosDois(l, e)
    PROVE  Acrescenta(l, e)
<1>1. MesmoId(l, porId[l], e.chave) = {}
  <2>1. l \in Carregadores /\ e.chave \notin Chaves(porId[l])
    BY DEF MapasJuntos, ComChave, Carregadores
  <2> QED BY <2>1, LugarProprio
<1>2. porId[l] \ MesmoId(l, porId[l], e.chave) = porId[l]
  BY <1>1
<1>3. porId' = [porId EXCEPT ![l] = porId[l] \cup {e}]
  BY <1>2 DEF PoeNosDois
<1> QED BY <1>3 DEF Acrescenta, PoeNosDois

LEMMA AcrescentaMapas ==
    ASSUME MapasJuntos, NEW l \in Carregadores, NEW e, Acrescenta(l, e)
    PROVE  /\ MapasJuntos'
           /\ \A k \in Carregadores : porId[k] \subseteq porId'[k]
           /\ \A k \in Carregadores \ {l} : porId'[k] = porId[k]
           /\ porId'[l] = porId[l] \cup {e}
<1>1. /\ porId' = [k \in Carregadores |-> porId'[k]]
      /\ porChave' = [k \in Carregadores |-> porChave'[k]]
      /\ \A k \in Carregadores \ {l} : porId'[k] = porId[k] /\ porChave'[k] = porChave[k]
      /\ porId'[l] = porId[l] \cup {e}
      /\ porChave'[l] = IF l \in ComChave THEN porChave[l] \cup {e} ELSE porChave[l]
  BY DEF MapasJuntos, Acrescenta
<1>2. ASSUME NEW k \in ComChave PROVE Chaves(porId'[k]) = Chaves(porChave'[k])
  <2>1. k \in Carregadores /\ Chaves(porId[k]) = Chaves(porChave[k])
    BY DEF MapasJuntos, ComChave, Carregadores
  <2>2. CASE k = l
    <3>1. Chaves(porId'[k]) = Chaves(porId[k]) \cup {e.chave}
      BY <1>1, <2>2 DEF Chaves
    <3>2. Chaves(porChave'[k]) = Chaves(porChave[k]) \cup {e.chave}
      BY <1>1, <2>2 DEF Chaves
    <3> QED BY <2>1, <3>1, <3>2
  <2>3. CASE k # l
    BY <1>1, <2>1, <2>3
  <2> QED BY <2>2, <2>3
<1> QED BY <1>1, <1>2 DEF MapasJuntos, Chaves

-----------------------------------------------------------------------------
(* What a row says, as the maps of the other loaders stand *)

DizCurso(r, e) == Valida({r.curso}) /\ e = [chave |-> r.curso]

DizVersao(r, e) ==
    /\ Valida({r.curso, r.versao}) /\ r.curso \in Chaves(porId["curso"])
    /\ e = [chave |-> <<Ponto(r.versao), r.curso>>, curso |-> r.curso]

DizComVersao(k, r, e) ==
    /\ Valida({k, r.curso, r.versao})
    /\ \E v : Versoes(r.curso, r.versao) = {v} /\ e = [chave |-> k, versao |-> v.chave]

DizProfessor(r, e) == Valida({r.curso, r.prof}) /\ e = [chave |-> r.prof]

DizTurma(r, e) ==
    /\ Valida({r.turma, r.disc}) /\ r.disc \in Chaves(porId["disciplina"])
    /\ e = [chave |-> <<r.disc, r.turma>>,
            prof  |-> IF r.prof \in Chaves(porId["professor"]) THEN r.prof ELSE Nulo]

DizInscricao(r, e) ==
    /\ Valida({r.aluno, r.turma}) /\ r.aluno \in Chaves(porId["aluno"])
    /\ \E t : Turmas(r.disc, r.turma) = {t} /\ e = [chave |-> <<r.aluno, t.chave>>]

\* e is what the row r says to the loader l.
Diz(l, r, e) ==
    \/ l = "curso" /\ DizCurso(r, e)
    \/ l = "versao" /\ DizVersao(r, e)
    \/ l = "disciplina" /\ DizComVersao(r.disc, r, e)
    \/ l = "professor" /\ DizProfessor(r, e)
    \/ l = "turma" /\ DizTurma(r, e)
    \/ l = "aluno" /\ DizComVersao(r.aluno, r, e)
    \/ l = "inscricao" /\ DizInscricao(r, e)

\* x is the pair of professor and course in the row r.
DizLeciona(r, x) ==
    /\ Valida({r.curso, r.prof})
    /\ x = <<r.prof, IF r.curso \in Chaves(porId["curso"]) THEN r.curso ELSE Nulo>>

\* The loader l has what the row r says.
Tem(l, r) == \A e : Diz(l, r, e) => e.chave \in Chaves(porId[l])
TemCurso(l, r) == l = "professor" => \A x : DizLeciona(r, x) => x \in leciona

LEMMA DizUmaCoisa ==
    ASSUME NEW l, NEW r, NEW e, NEW f, Diz(l, r, e), Diz(l, r, f)
    PROVE  e = f
<1>1. ASSUME NEW k, DizComVersao(k, r, e), DizComVersao(k, r, f) PROVE e = f
  BY <1>1 DEF DizComVersao
<1>2. DizInscricao(r, e) /\ DizInscricao(r, f) => e = f
  BY DEF DizInscricao
<1>3. DizCurso(r, e) /\ DizCurso(r, f) => e = f
  BY DEF DizCurso
<1>4. DizVersao(r, e) /\ DizVersao(r, f) => e = f
  BY DEF DizVersao
<1>5. DizProfessor(r, e) /\ DizProfessor(r, f) => e = f
  BY DEF DizProfessor
<1>6. DizTurma(r, e) /\ DizTurma(r, f) => e = f
  BY DEF DizTurma
<1> QED BY <1>1, <1>2, <1>3, <1>4, <1>5, <1>6 DEF Diz

\* What a row says has a key of the spreadsheets.
LEMMA DizChave ==
    ASSUME ChavesDadas, NEW l \in Carregadores, NEW r \in LinhasDe(planilhas, l),
           NEW e, Diz(l, r, e)
    PROVE  ChaveEm(planilhas, l, e.chave)
<1>1. \A k : DizComVersao(k, r, e) => e.chave = k
  BY DEF DizComVersao
<1>2. CASE l = "inscricao" /\ DizInscricao(r, e)
  <2>1. PICK t : Turmas(r.disc, r.turma) = {t} /\ e = [chave |-> <<r.aluno, t.chave>>]
    BY <1>2 DEF DizInscricao
  <2>2. t \in porId["turma"] /\ t.chave[2] = r.turma /\ r.disc \in {t.chave[1], Nulo}
    BY <2>1 DEF Turmas, Todos
  <2>3. ChaveEm(planilhas, "turma", t.chave)
    BY <2>2 DEF ChavesDadas, Carregadores
  <2>4. PICK o \in LinhasDe(planilhas, "turma") : t.chave = <<o.disc, o.turma>>
    BY <2>3 DEF ChaveEm
  <2>5. o.turma = r.turma /\ r.disc \in {o.disc, Nulo}
    BY <2>2, <2>4
  <2>6. e.chave = <<r.aluno, <<o.disc, o.turma>>>>
    BY <2>1, <2>4
  <2> QED BY <1>2, <2>5, <2>6 DEF ChaveEm
<1>3. CASE l = "curso" /\ DizCurso(r, e)
  BY <1>3 DEF DizCurso, ChaveEm
<1>4. CASE l = "versao" /\ DizVersao(r, e)
  BY <1>4 DEF DizVersao, ChaveEm
<1>5. CASE l = "professor" /\ DizProfessor(r, e)
  BY <1>5 DEF DizProfessor, ChaveEm
<1>6. CASE l = "turma" /\ DizTurma(r, e)
  BY <1>6 DEF DizTurma, ChaveEm
<1>7. CASE l = "disciplina" /\ DizComVersao(r.disc, r, e)
  BY <1>1, <1>7 DEF ChaveEm
<1>8. CASE l = "aluno" /\ DizComVersao(r.aluno, r, e)
  BY <1>1, <1>8 DEF ChaveEm
<1> QED BY <1>2, <1>3, <1>4, <1>5, <1>6, <1>7, <1>8 DEF Diz

\* The row adds what it says, or that was there.
Acrescimo(l, r) == \E e : Acrescenta(l, e) /\ Diz(l, r, e) /\ e.chave \notin Chaves(porId[l])

SemAcrescimo == UNCHANGED <<porId, porChave>>

LEMMA JuntaNosDois ==
    ASSUME IdsDiferentes, MapasJuntos, ChavesDadas, planilhas \in Conteudos,
           NEW l \in ComChave, NEW r \in LinhasDe(planilhas, l), NEW e,
           Diz(l, r, e), e.chave \notin Chaves(porChave[l]), PoeNosDois(l, e)
    PROVE  Acrescimo(l, r)
<1>1. ChaveEm(planilhas, l, e.chave)
  BY DizChave DEF ComChave, Carregadores
<1> QED BY <1>1, NosDois DEF Acrescimo, MapasJuntos

LEMMA JuntaSeNovo ==
    ASSUME IdsDiferentes, MapasJuntos, ChavesDadas, planilhas \in Conteudos,
           NEW l \in Carregadores \ ComChave, NEW r \in LinhasDe(planilhas, l), NEW e,
           Diz(l, r, e), PoeSeNovo(l, e)
    PROVE  Acrescimo(l, r) \/ (SemAcrescimo /\ Tem(l, r))
<1>1. CASE MesmoId(l, porId[l], e.chave) = {}
  <2>1. Acrescenta(l, e)
    BY <1>1 DEF PoeSeNovo, Acrescenta
  <2>2. e.chave \notin Chaves(porId[l])
    BY <1>1 DEF MesmoId, Chaves
  <2> QED BY <2>1, <2>2 DEF Acrescimo
<1>2. CASE MesmoId(l, porId[l], e.chave) # {}
  <2>1. porId' = [porId EXCEPT ![l] = porId[l]]
    BY <1>2 DEF PoeSeNovo
  <2>2. SemAcrescimo
    BY <2>1 DEF PoeSeNovo, MapasJuntos, SemAcrescimo
  <2>3. e.chave \in Chaves(porId[l])
    BY <1>2, DizChave, LugarProprio
  <2>4. Tem(l, r)
    BY <2>3, DizUmaCoisa DEF Tem
  <2> QED BY <2>2, <2>4
<1> QED BY <1>1, <1>2

\* A row of subjects or students.
LEMMA LinhaComVersao ==
    ASSUME IdsDiferentes, MapasJuntos, ChavesDadas, planilhas \in Conteudos,
           NEW l \in {"disciplina", "aluno"}, NEW k, NEW r \in LinhasDe(planilhas, l),
           \A e : Diz(l, r, e) <=> DizComVersao(k, r, e), ComVersao(l, k, r)
    PROVE  Acrescimo(l, r) \/ (SemAcrescimo /\ Tem(l, r))
<1>1. l \in ComChave /\ Chaves(porId[l]) = Chaves(porChave[l])
  BY DEF ComChave, MapasJuntos
<1>2. CASE /\ Valida({k, r.curso, r.versao}) /\ k \notin Chaves(porChave[l])
           /\ UmSo(Versoes(r.curso, r.versao))
  <2>1. PICK v \in Versoes(r.curso, r.versao) :
           PoeNosDois(l, [chave |-> k, versao |-> v.chave])
    BY <1>2 DEF ComVersao
  <2>2. Versoes(r.curso, r.versao) = {v}
    BY <1>2 DEF UmSo
  <2> DEFINE e == [chave |-> k, versao |-> v.chave]
  <2>3. Diz(l, r, e) /\ e.chave = k
    BY <1>2, <2>2 DEF DizComVersao
  <2> QED BY <1>1, <1>2, <2>1, <2>3, JuntaNosDois
<1>3. CASE ~ (/\ Valida({k, r.curso, r.versao}) /\ k \notin Chaves(porChave[l])
              /\ UmSo(Versoes(r.curso, r.versao)))
  <2>1. SemAcrescimo
    BY <1>3 DEF ComVersao, Ignora, SemAcrescimo
  <2>2. ASSUME NEW e, Diz(l, r, e) PROVE e.chave \in Chaves(porId[l])
    <3>1. Valida({k, r.curso, r.versao}) /\ e.chave = k
      BY <2>2 DEF DizComVersao
    <3>2. UmSo(Versoes(r.curso, r.versao))
      BY <2>2 DEF DizComVersao, UmSo
    <3> QED BY <1>1, <1>3, <3>1, <3>2
  <2> QED BY <2>1, <2>2 DEF Tem
<1> QED BY <1>2, <1>3

LEMMA LinhaDiz ==
    ASSUME IdsDiferentes, MapasJuntos, ChavesDadas, planilhas \in Conteudos,
           NEW l, NEW r \in LinhasDe(planilhas, l), Le(l, r)
    PROVE  l \in Carregadores /\ (Acrescimo(l, r) \/ (SemAcrescimo /\ Tem(l, r)))
<1>1. CASE l = "curso" /\ LeCurso(r)
  <2> DEFINE e == [chave |-> r.curso]
  <2>1. Chaves(porId["curso"]) = Chaves(porChave["curso"])
    BY DEF MapasJuntos, ComChave
  <2>2. \A f : Diz("curso", r, f) <=> Valida({r.curso}) /\ f = e
    BY DEF Diz, DizCurso
  <2>3. CASE Valida({r.curso}) /\ r.curso \notin Chaves(porChave["curso"])
    BY <1>1, <2>2, <2>3, JuntaNosDois DEF LeCurso, ComChave, Carregadores
  <2>4. CASE ~ (Valida({r.curso}) /\ r.curso \notin Chaves(porChave["curso"]))
    BY <1>1, <2>1, <2>2, <2>4 DEF LeCurso, Ignora, SemAcrescimo, Tem, Carregadores
  <2> QED BY <2>3, <2>4
<1>2. CASE l = "versao" /\ LeVersao(r)
  <2> DEFINE e == [chave |-> <<Ponto(r.versao), r.curso>>, curso |-> r.curso]
             ha == Valida({r.curso, r.versao}) /\ r.curso \in Chaves(porId["curso"])
  <2>1. \A f : Diz("versao", r, f) <=> ha /\ f = e
    BY DEF Diz, DizVersao
  <2>2. CASE ha
    <3>1. PoeSeNovo("versao", e) /\ Diz("versao", r, e)
      BY <1>2, <2>1, <2>2 DEF LeVersao, Todos
    <3> QED BY <1>2, <3>1, JuntaSeNovo DEF Carregadores, ComChave
  <2>3. CASE ~ha
    BY <1>2, <2>1, <2>3 DEF LeVersao, Todos, Ignora, SemAcrescimo, Tem, Carregadores
  <2> QED BY <2>2, <2>3
<1>3. CASE l = "disciplina" /\ LeDisciplina(r)
  <2>1. \A e : Diz("disciplina", r, e) <=> DizComVersao(r.disc, r, e)
    BY DEF Diz
  <2> QED BY <1>3, <2>1, LinhaComVersao DEF LeDisciplina, Carregadores
<1>4. CASE l = "aluno" /\ LeAluno(r)
  <2>1. \A e : Diz("aluno", r, e) <=> DizComVersao(r.aluno, r, e)
    BY DEF Diz
  <2> QED BY <1>4, <2>1, LinhaComVersao DEF LeAluno, Carregadores
<1>5. CASE l = "professor" /\ LeProfessor(r)
  <2> DEFINE e == [chave |-> r.prof]
  <2>1. Chaves(porId["professor"]) = Chaves(porChave["professor"])
    BY DEF MapasJuntos, ComChave
  <2>2. \A f : Diz("professor", r, f) <=> Valida({r.curso, r.prof}) /\ f = e
    BY DEF Diz, DizProfessor
  <2>3. CASE Valida({r.curso, r.prof}) /\ r.prof \notin Chaves(porChave["professor"])
    BY <1>5, <2>2, <2>3, JuntaNosDois DEF LeProfessor, ComChave, Carregadores
  <2>4. CASE ~ (Valida({r.curso, r.prof}) /\ r.prof \notin Chaves(porChave["professor"]))
    BY <1>5, <2>1, <2>2, <2>4 DEF LeProfessor, Ignora, SemAcrescimo, Tem, Carregadores
  <2> QED BY <2>3, <2>4
<1>6. CASE l = "turma" /\ LeTurma(r)
  <2> DEFINE q == IF r.prof \in Chaves(porId["professor"]) THEN r.prof ELSE Nulo
             e == [chave |-> <<r.disc, r.turma>>, prof |-> q]
             ha == Valida({r.turma, r.disc}) /\ r.disc \in Chaves(porId["disciplina"])
  <2>1. /\ Chaves(porId["professor"]) = Chaves(porChave["professor"])
        /\ Chaves(porId["disciplina"]) = Chaves(porChave["disciplina"])
    BY DEF MapasJuntos, ComChave
  <2>2. \A f : Diz("turma", r, f) <=> ha /\ f = e
    BY DEF Diz, DizTurma
  <2>3. CASE ha
    <3>1. PoeSeNovo("turma", e) /\ Diz("turma", r, e)
      BY <1>6, <2>1, <2>2, <2>3 DEF LeTurma
    <3> QED BY <1>6, <3>1, JuntaSeNovo DEF Carregadores, ComChave
  <2>4. CASE ~ha
    BY <1>6, <2>1, <2>2, <2>4 DEF LeTurma, Ignora, SemAcrescimo, Tem, Carregadores
  <2> QED BY <2>3, <2>4
<1>7. CASE l = "inscricao" /\ LeInscricao(r)
  <2> DEFINE ha == /\ Valida({r.aluno, r.turma}) /\ r.aluno \in Chaves(porId["aluno"])
                   /\ UmSo(Turmas(r.disc, r.turma))
  <2>1. Chaves(porId["aluno"]) = Chaves(porChave["aluno"])
    BY DEF MapasJuntos, ComChave
  <2>2. CASE ha
    <3>1. PICK t \in Turmas(r.disc, r.turma) :
             PoeSeNovo("inscricao", [chave |-> <<r.aluno, t.chave>>])
      BY <1>7, <2>1, <2>2 DEF LeInscricao
    <3>2. Turmas(r.disc, r.turma) = {t}
      BY <2>2 DEF UmSo
    <3> DEFINE e == [chave |-> <<r.aluno, t.chave>>]
    <3>3. Diz("inscricao", r, e)
      BY <2>2, <3>2 DEF Diz, DizInscricao
    <3> QED BY <1>7, <3>1, <3>3, JuntaSeNovo DEF Carregadores, ComChave
  <2>3. CASE ~ha
    <3>1. SemAcrescimo
      BY <1>7, <2>1, <2>3 DEF LeInscricao, Ignora, SemAcrescimo
    <3>2. \A f : ~Diz("inscricao", r, f)
      BY <2>3 DEF Diz, DizInscricao, UmSo
    <3> QED BY <1>7, <3>1, <3>2 DEF Tem, Carregadores
  <2> QED BY <2>2, <2>3
<1> QED BY <1>1, <1>2, <1>3, <1>4, <1>5, <1>6, <1>7 DEF Le

\* What any step does to the maps.
LEMMA PassoDosMapas ==
    ASSUME IdsDiferentes, MapasJuntos, ChavesDadas, Ordem, [Next]_vars
    PROVE  \/ Desliga
           \/ SemAcrescimo
           \/ /\ UNCHANGED planilhas /\ planilhas # Nulo
              /\ \E l \in Carregadores : \E r \in LinhasDe(planilhas, l) : Acrescimo(l, r)
<1>1. CASE LeLinha
  <2>1. CASE Ignora
    BY <2>1 DEF Ignora, SemAcrescimo
  <2>2. CASE ~Ignora
    <3>1. /\ planilhas \in Conteudos /\ planilhas # Nulo /\ UNCHANGED planilhas
          /\ Le(atual, Head(linhas)) /\ Head(linhas) \in LinhasDe(planilhas, atual)
      BY <1>1, <2>2, LinhaDaPasta, ImportacaoAssumption DEF LeLinha
    <3> QED BY <3>1, LinhaDiz
  <2> QED BY <2>1, <2>2
<1>2. CASE ~LeLinha
  BY <1>2 DEF Next, Passo, Inicia, AbreArquivo, Termina, Aborta, Liga, SemAcrescimo, vars
<1> QED BY <1>1, <1>2

LEMMA MapasSempreJuntos ==
    ASSUME IdsDiferentes
    PROVE  Spec => [](MapasJuntos /\ ChavesDadas)
<1>1. Init => MapasJuntos /\ ChavesDadas
  BY DEF Init, MapasJuntos, ChavesDadas, ComChave, Carregadores, Chaves
<1>2. ASSUME MapasJuntos, ChavesDadas, Ordem, [Next]_vars
      PROVE  MapasJuntos' /\ ChavesDadas'
  <2>1. CASE Desliga
    BY <2>1 DEF Desliga, MapasJuntos, ChavesDadas, ComChave, Carregadores, Chaves
  <2>2. CASE SemAcrescimo /\ ~Desliga
    <3>1. porId' = porId /\ porChave' = porChave
      BY <2>2 DEF SemAcrescimo
    <3>2. planilhas' = planilhas \/ planilhas = Nulo
      BY <1>2, <2>2
         DEF Next, Passo, Inicia, AbreArquivo, LeLinha, Termina, Aborta, Liga, vars
    <3>3. ChavesDadas'
      <4>1. CASE planilhas = Nulo
        BY <1>2, <3>1, <4>1 DEF ChavesDadas
      <4>2. CASE planilhas' = planilhas
        BY <1>2, <3>1, <4>2 DEF ChavesDadas, ChaveEm, LinhasDe, DasFolhas
      <4> QED BY <3>2, <4>1, <4>2
    <3> QED BY <1>2, <3>1, <3>3 DEF MapasJuntos
  <2>3. ASSUME UNCHANGED planilhas, planilhas # Nulo, NEW l \in Carregadores,
               NEW r \in LinhasDe(planilhas, l), Acrescimo(l, r)
        PROVE  MapasJuntos' /\ ChavesDadas'
    <3>1. PICK e : Acrescenta(l, e) /\ Diz(l, r, e)
      BY <2>3 DEF Acrescimo
    <3>2. /\ MapasJuntos'
          /\ \A k \in Carregadores \ {l} : porId'[k] = porId[k]
          /\ porId'[l] = porId[l] \cup {e}
      BY <1>2, <3>1, AcrescentaMapas
    <3>3. ChaveEm(planilhas, l, e.chave)
      BY <1>2, <3>1, DizChave
    <3>4. \A k \in Carregadores : \A x \in porId'[k] : ChaveEm(planilhas, k, x.chave)
      BY <1>2, <3>2, <3>3 DEF ChavesDadas
    <3>5. planilhas' = planilhas
      BY <2>3
    <3>6. \A k, y : ChaveEm(planilhas, k, y)' <=> ChaveEm(planilhas, k, y)
      BY <3>5 DEF ChaveEm, LinhasDe, DasFolhas
    <3>7. ChavesDadas'
      BY <2>3, <3>4, <3>5, <3>6 DEF ChavesDadas
    <3> QED BY <3>2, <3>7
  <2> QED BY <1>2, <2>1, <2>2, <2>3, PassoDosMapas
<1> QED BY <1>1, <1>2, OrdemSempre, PTL DEF Spec

\* Until the server stops, what a DAO took from a row it keeps, whatever rows
\* come later (containsKey() of the maps in the init() of the DAOs).
THEOREM NadaSai ==
    ASSUME IdsDiferentes
    PROVE  Spec => Permanece
<1>1. ASSUME MapasJuntos, ChavesDadas, Ordem, [Next]_vars
      PROVE  [Desliga \/ \A l \in Carregadores : porId[l] \subseteq porId'[l]]_vars
  <2>1. CASE SemAcrescimo
    BY <2>1 DEF SemAcrescimo
  <2>2. CASE \E l \in Carregadores : \E r : Acrescimo(l, r)
    BY <1>1, <2>2, AcrescentaMapas DEF Acrescimo
  <2> QED BY <1>1, <2>1, <2>2, PassoDosMapas
<1> QED BY <1>1, MapasSempreJuntos, OrdemSempre, PTL DEF Spec, Permanece

\* The objects e refers to are in the maps.
Referido(l, e) ==
    /\ l = "versao" => e.curso \in Chaves(porId["curso"])
    /\ l \in {"disciplina", "aluno"} => e.versao \in Chaves(porId["versao"])
    /\ l = "turma" => /\ e.chave[1] \in Chaves(porId["disciplina"])
                      /\ e.prof \in Chaves(porId["professor"]) \cup {Nulo}
    /\ l = "inscricao" => /\ e.chave[1] \in Chaves(porId["aluno"])
                          /\ e.chave[2] \in Chaves(porId["turma"])

LEMMA DizReferido ==
    ASSUME NEW l, NEW r, NEW e, Diz(l, r, e)
    PROVE  Referido(l, e)
<1>1. ASSUME NEW k, DizComVersao(k, r, e) PROVE e.versao \in Chaves(porId["versao"])
  <2>1. PICK v : Versoes(r.curso, r.versao) = {v} /\ e = [chave |-> k, versao |-> v.chave]
    BY <1>1 DEF DizComVersao
  <2>2. v \in porId["versao"]
    BY <2>1 DEF Versoes, Todos
  <2> QED BY <2>1, <2>2 DEF Chaves
<1>2. DizInscricao(r, e) => /\ e.chave[1] \in Chaves(porId["aluno"])
                            /\ e.chave[2] \in Chaves(porId["turma"])
  <2> SUFFICES ASSUME DizInscricao(r, e)
               PROVE  /\ e.chave[1] \in Chaves(porId["aluno"])
                      /\ e.chave[2] \in Chaves(porId["turma"])
    OBVIOUS
  <2>1. PICK t : Turmas(r.disc, r.turma) = {t} /\ e = [chave |-> <<r.aluno, t.chave>>]
    BY DEF DizInscricao
  <2>2. t \in porId["turma"]
    BY <2>1 DEF Turmas, Todos
  <2> QED BY <2>1, <2>2 DEF Chaves, DizInscricao
<1>3. DizVersao(r, e) => e.curso \in Chaves(porId["curso"])
  BY DEF DizVersao
<1>4. DizTurma(r, e) => /\ e.chave[1] \in Chaves(porId["disciplina"])
                        /\ e.prof \in Chaves(porId["professor"]) \cup {Nulo}
  BY DEF DizTurma
<1> QED BY <1>1, <1>2, <1>3, <1>4 DEF Diz, Referido

\* Every object the pages may be given refers to objects they may be given too,
\* at any moment of the start and after it (the DAOs, which find each other's
\* objects, and retrieveById).
THEOREM NadaPendurado ==
    ASSUME IdsDiferentes
    PROVE  Spec => []Referencias
<1>1. Init => Referencias
  BY DEF Init, Referencias, Todos, Carregadores
<1>2. ASSUME MapasJuntos, ChavesDadas, Ordem, Referencias, [Next]_vars
      PROVE  Referencias'
  <2>1. CASE Desliga
    BY <2>1 DEF Desliga, Referencias, Todos, Carregadores
  <2>2. CASE SemAcrescimo
    BY <1>2, <2>2 DEF SemAcrescimo, Referencias, Todos
  <2>3. ASSUME NEW l \in Carregadores, NEW r, Acrescimo(l, r) PROVE Referencias'
    <3>1. PICK e : Acrescenta(l, e) /\ Referido(l, e)
      BY <2>3, DizReferido DEF Acrescimo
    <3>2. /\ \A k \in Carregadores : Chaves(porId[k]) \subseteq Chaves(porId'[k])
          /\ \A k \in Carregadores : \A x \in porId'[k] : x \in porId[k] \/ (k = l /\ x = e)
      BY <1>2, <3>1, AcrescentaMapas DEF Chaves
    <3>3. \A x \in porId'["versao"] : x.curso \in Chaves(porId'["curso"])
      BY <1>2, <3>1, <3>2 DEF Referencias, Referido, Todos, Carregadores
    <3>4. \A x \in porId'["disciplina"] \cup porId'["aluno"] :
             x.versao \in Chaves(porId'["versao"])
      BY <1>2, <3>1, <3>2 DEF Referencias, Referido, Todos, Carregadores
    <3>5. \A x \in porId'["turma"] :
             /\ x.chave[1] \in Chaves(porId'["disciplina"])
             /\ x.prof \in Chaves(porId'["professor"]) \cup {Nulo}
      BY <1>2, <3>1, <3>2 DEF Referencias, Referido, Todos, Carregadores
    <3>6. \A x \in porId'["inscricao"] :
             /\ x.chave[1] \in Chaves(porId'["aluno"])
             /\ x.chave[2] \in Chaves(porId'["turma"])
      BY <1>2, <3>1, <3>2 DEF Referencias, Referido, Todos, Carregadores
    <3> QED BY <3>3, <3>4, <3>5, <3>6 DEF Referencias, Todos
  <2> QED BY <1>2, <2>1, <2>2, <2>3, PassoDosMapas
<1> QED BY <1>1, <1>2, MapasSempreJuntos, OrdemSempre, PTL DEF Spec

-----------------------------------------------------------------------------
(* What was read of the rows                                                *)

\* What is done of a row r of the loader l.
Feito(l, r) == Tem(l, r) /\ TemCurso(l, r)

\* What a map has, some row says; a key has one object.
Sentido(l) ==
    /\ porId[l] # {} => l \in Comecados
    /\ \A e, f \in porId[l] : e.chave = f.chave => e = f
    /\ \A e \in porId[l] : \E r \in Linhas(Pasta[l]) : Diz(l, r, e)

SentidoCursos ==
    /\ leciona # {} => "professor" \in Comecados
    /\ \A x \in leciona : \E r \in Linhas("ofertas") : DizLeciona(r, x)

\* What a row says, its map has, once the row was read.
Cobre(l) ==
    l \in Comecados =>
        \A r \in Linhas(Pasta[l]) : Feito(l, r) \/ (l = atual /\ r \in Pendentes)

Dados ==
    /\ \A l \in Carregadores : Sentido(l) /\ Cobre(l)
    /\ SentidoCursos

\* What a row says depends on the maps of the injected DAOs alone.
LEMMA DizFirme ==
    ASSUME NEW l \in Carregadores, \A k \in Depende[l] : porId'[k] = porId[k]
    PROVE  \A r, e : Diz(l, r, e)' <=> Diz(l, r, e)
<1> TAKE r, e
<1>1. l = "versao" \/ l = "professor" => porId'["curso"] = porId["curso"]
  BY DEF Depende
<1>2. l = "disciplina" \/ l = "aluno" => porId'["versao"] = porId["versao"]
  BY DEF Depende
<1>3. l = "turma" => /\ porId'["disciplina"] = porId["disciplina"]
                     /\ porId'["professor"] = porId["professor"]
  BY DEF Depende
<1>4. l = "inscricao" => porId'["aluno"] = porId["aluno"] /\ porId'["turma"] = porId["turma"]
  BY DEF Depende
<1>5. l = "curso" => (Diz(l, r, e)' <=> Diz(l, r, e))
  BY DEF Diz, DizCurso, Valida
<1>6. l = "versao" => (Diz(l, r, e)' <=> Diz(l, r, e))
  BY <1>1 DEF Diz, DizVersao, Valida, Chaves
<1>7. l = "disciplina" => (Diz(l, r, e)' <=> Diz(l, r, e))
  BY <1>2 DEF Diz, DizComVersao, Valida, Versoes, Todos
<1>8. l = "aluno" => (Diz(l, r, e)' <=> Diz(l, r, e))
  BY <1>2 DEF Diz, DizComVersao, Valida, Versoes, Todos
<1>9. l = "professor" => (Diz(l, r, e)' <=> Diz(l, r, e))
  BY DEF Diz, DizProfessor, Valida
<1>10. l = "turma" => (Diz(l, r, e)' <=> Diz(l, r, e))
  BY <1>3 DEF Diz, DizTurma, Valida, Chaves
<1>11. l = "inscricao" => (Diz(l, r, e)' <=> Diz(l, r, e))
  BY <1>4 DEF Diz, DizInscricao, Valida, Chaves, Turmas, Todos
<1> QED BY <1>5, <1>6, <1>7, <1>8, <1>9, <1>10, <1>11 DEF Carregadores

LEMMA LecionaFirme ==
    ASSUME porId'["curso"] = porId["curso"]
    PROVE  \A r, x : DizLeciona(r, x)' <=> DizLeciona(r, x)
BY DEF DizLeciona, Valida, Chaves

\* What a row adds to the courses of the professors.
LEMMA LinhaLeciona ==
    ASSUME NEW l, NEW r, Le(l, r)
    PROVE  \A x : x \in leciona' <=> x \in leciona \/ (l = "professor" /\ DizLeciona(r, x))
<1>1. CASE l = "professor" /\ LeProfessor(r)
  BY <1>1 DEF LeProfessor, DizLeciona, Ignora, Todos
<1>2. CASE /\ l # "professor"
           /\ LeCurso(r) \/ LeVersao(r) \/ LeDisciplina(r) \/ LeTurma(r) \/ LeAluno(r)
              \/ LeInscricao(r)
  BY <1>2 DEF LeCurso, LeVersao, LeDisciplina, LeTurma, LeAluno, LeInscricao, ComVersao, Ignora
<1> QED BY <1>1, <1>2 DEF Le

\* A step that changes neither the spreadsheets nor what was read of them.
LEMMA SoControle ==
    ASSUME Dados, UNCHANGED <<planilhas, porId, leciona>>, Comecados \subseteq Comecados',
           \A l \in Carregadores \cap Comecados' : \A r \in Linhas(Pasta[l]) :
              \/ l \in Comecados /\ (l = atual /\ r \in Pendentes => Feito(l, r))
              \/ l = atual' /\ r \in Pendentes'
    PROVE  Dados'
<1>1. \A p : Linhas(p)' = Linhas(p)
  BY DEF Linhas
<1>2. \A l \in Carregadores : \A r, e : Diz(l, r, e)' <=> Diz(l, r, e)
  BY DizFirme
<1>3. \A r, x : DizLeciona(r, x)' <=> DizLeciona(r, x)
  BY LecionaFirme
<1>4. \A l \in Carregadores : \A r : Feito(l, r)' <=> Feito(l, r)
  BY <1>2, <1>3 DEF Feito, Tem, TemCurso, Chaves
<1>5. ASSUME NEW l \in Carregadores PROVE Sentido(l)'
  BY <1>1, <1>2 DEF Dados, Sentido
<1>6. ASSUME NEW l \in Carregadores PROVE Cobre(l)'
  <2> SUFFICES ASSUME l \in Comecados', NEW r \in Linhas(Pasta[l])
               PROVE  Feito(l, r)' \/ (l = atual' /\ r \in Pendentes')
    BY <1>1 DEF Cobre
  <2> QED BY <1>4 DEF Dados, Cobre
<1>7. SentidoCursos'
  BY <1>1, <1>3 DEF Dados, SentidoCursos
<1> QED BY <1>5, <1>6, <1>7 DEF Dados

\* The next row is read, whether it adds something or not.
LEMMA Leitura ==
    ASSUME IdsDiferentes, MapasJuntos, ChavesDadas, Ordem, Dados, LeLinha
    PROVE  Dados'
<1> PICK a, q : a = atual /\ q = Head(linhas)
  OBVIOUS
<1>1. /\ planilhas' = planilhas /\ prontos' = prontos /\ atual' = a /\ restam' = restam
      /\ linhas' = Tail(linhas) /\ linhas # <<>> /\ a # Nulo
  BY DEF LeLinha, Ordem
<1>2. /\ a \in Carregadores /\ a \notin prontos /\ a \in Comecados
      /\ linhas \in Seq(DasFolhas(planilhas[Pasta[a]]))
      /\ \A l \in Comecados : Depende[l] \subseteq prontos
  BY <1>1 DEF Ordem, Comecados
<1>3. /\ \A p : Linhas(p)' = Linhas(p)
      /\ Comecados' = Comecados
  BY <1>1 DEF Linhas, Comecados
<1>4. q \in DasFolhas(planilhas[Pasta[a]]) /\ \A x \in Pendentes : x = q \/ x \in Pendentes'
  <2>1. DasFolhas(restam)' = DasFolhas(restam)
    BY <1>1 DEF DasFolhas
  <2>2. /\ q \in DasFolhas(planilhas[Pasta[a]])
        /\ \A n \in 1..Len(linhas) :
              linhas[n] = q \/ linhas[n] \in { Tail(linhas)[m] : m \in 1..Len(Tail(linhas)) }
    BY <1>1, <1>2, CabecaECauda
  <2> QED BY <1>1, <2>1, <2>2 DEF Pendentes
<1>5. CASE q = Vazia /\ Ignora
  <2>1. ASSUME NEW l \in Carregadores \cap Comecados', NEW r \in Linhas(Pasta[l])
        PROVE  \/ l \in Comecados /\ (l = atual /\ r \in Pendentes => Feito(l, r))
               \/ l = atual' /\ r \in Pendentes'
    BY <1>1, <1>3, <1>4, <1>5 DEF Linhas
  <2>2. UNCHANGED <<planilhas, porId, leciona>>
    BY <1>1, <1>5 DEF Ignora
  <2> QED BY <1>3, <2>1, <2>2, SoControle
<1>6. CASE q \notin {Vazia, Ilegivel} /\ Le(a, q)
  <2>1. Acrescimo(a, q) \/ (SemAcrescimo /\ Tem(a, q))
    BY <1>6, LinhaDaPasta, LinhaDiz
  <2>2. \A x : x \in leciona' <=> x \in leciona \/ (a = "professor" /\ DizLeciona(q, x))
    BY <1>6, LinhaLeciona
  <2>3. \A k \in Carregadores : porId[k] \subseteq porId'[k] /\ (k # a => porId'[k] = porId[k])
    BY <1>2, <2>1, AcrescentaMapas DEF Acrescimo, SemAcrescimo
  <2>4. ASSUME NEW l \in Carregadores \cap Comecados
        PROVE  \A r, e : Diz(l, r, e)' <=> Diz(l, r, e)
    <3>1. \A k \in Depende[l] : k \in Carregadores /\ k # a
      BY <1>2 DEF Ordem
    <3> QED BY <2>3, <3>1, DizFirme
  <2>5. "professor" \in Comecados => \A r, x : DizLeciona(r, x)' <=> DizLeciona(r, x)
    <3> SUFFICES ASSUME "professor" \in Comecados
                 PROVE  \A r, x : DizLeciona(r, x)' <=> DizLeciona(r, x)
      OBVIOUS
    <3>1. "curso" # a /\ "curso" \in Carregadores
      BY <1>2 DEF Depende, Carregadores
    <3> QED BY <2>3, <3>1, LecionaFirme
  <2>6. q \in Linhas(Pasta[a])
    BY <1>4, <1>6 DEF Linhas, DasFolhas
  <2>7. ASSUME NEW l \in Carregadores \cap Comecados, NEW r, Feito(l, r)
        PROVE  Feito(l, r)'
    <3>1. Tem(l, r)'
      BY <2>3, <2>4, <2>7 DEF Feito, Tem, Chaves
    <3>2. TemCurso(l, r)'
      BY <2>2, <2>5, <2>7 DEF Feito, TemCurso
    <3> QED BY <3>1, <3>2 DEF Feito
  <2>8. Feito(a, q)'
    <3>1. Tem(a, q)'
      <4>1. CASE Acrescimo(a, q)
        <5>1. PICK e : Acrescenta(a, e) /\ Diz(a, q, e)
          BY <4>1 DEF Acrescimo
        <5>2. e \in porId'[a]
          BY <1>2, <5>1, AcrescentaMapas
        <5>3. \A f : Diz(a, q, f)' => f = e
          BY <1>2, <2>4, <5>1, DizUmaCoisa
        <5> QED BY <5>2, <5>3 DEF Tem, Chaves
      <4>2. CASE SemAcrescimo /\ Tem(a, q)
        BY <1>2, <2>3, <2>4, <4>2 DEF Tem, Chaves
      <4> QED BY <2>1, <4>1, <4>2
    <3>2. TemCurso(a, q)'
      BY <1>1, <1>2, <2>2, <2>5 DEF TemCurso
    <3> QED BY <3>1, <3>2 DEF Feito
  <2>9. ASSUME NEW l \in Carregadores PROVE Sentido(l)'
    <3>1. CASE l # a \/ SemAcrescimo
      <4>1. porId'[l] = porId[l]
        BY <2>3, <3>1 DEF SemAcrescimo
      <4>2. /\ porId[l] # {} => l \in Comecados
            /\ \A e, f \in porId[l] : e.chave = f.chave => e = f
            /\ \A e \in porId[l] : \E r \in Linhas(Pasta[l]) : Diz(l, r, e)
        BY DEF Dados, Sentido
      <4>3. \A e \in porId'[l] : \E r \in Linhas(Pasta[l]) : Diz(l, r, e)'
        BY <2>4, <4>1, <4>2
      <4> QED BY <1>3, <4>1, <4>2, <4>3 DEF Sentido
    <3>2. CASE l = a /\ Acrescimo(a, q)
      <4>1. PICK e : Acrescenta(a, e) /\ Diz(a, q, e) /\ e.chave \notin Chaves(porId[a])
        BY <3>2 DEF Acrescimo
      <4>2. porId'[a] = porId[a] \cup {e}
        BY <1>2, <4>1, AcrescentaMapas
      <4>3. /\ \A f, g \in porId[a] : f.chave = g.chave => f = g
            /\ \A f \in porId[a] : \E r \in Linhas(Pasta[a]) : Diz(a, r, f)
        BY <1>2 DEF Dados, Sentido
      <4>4. \A f, g \in porId'[a] : f.chave = g.chave => f = g
        BY <4>1, <4>2, <4>3 DEF Chaves
      <4>5. \A f \in porId'[a] : \E r \in Linhas(Pasta[a]) : Diz(a, r, f)
        BY <2>6, <4>1, <4>2, <4>3
      <4>6. \A f \in porId'[a] : \E r \in Linhas(Pasta[a]) : Diz(a, r, f)'
        BY <1>2, <2>4, <4>5
      <4> QED BY <1>2, <1>3, <3>2, <4>4, <4>6 DEF Sentido
    <3> QED BY <2>1, <3>1, <3>2
  <2>10. ASSUME NEW l \in Carregadores PROVE Cobre(l)'
    <3> SUFFICES ASSUME l \in Comecados, NEW r \in Linhas(Pasta[l])
                 PROVE  Feito(l, r)' \/ (l = atual' /\ r \in Pendentes')
      BY <1>3 DEF Cobre
    <3>1. Feito(l, r) \/ (l = a /\ r \in Pendentes)
      BY DEF Dados, Cobre
    <3> QED BY <1>1, <1>4, <2>7, <2>8, <3>1
  <2>11. SentidoCursos'
    <3>1. /\ leciona # {} => "professor" \in Comecados
          /\ \A x \in leciona : \E r \in Linhas("ofertas") : DizLeciona(r, x)
      BY DEF Dados, SentidoCursos
    <3>2. a = "professor" => q \in Linhas("ofertas") /\ "professor" \in Comecados
      BY <1>2, <2>6 DEF Pasta
    <3>3. leciona' # {} => "professor" \in Comecados
      BY <2>2, <3>1, <3>2
    <3>4. \A x \in leciona' : \E r \in Linhas("ofertas") : DizLeciona(r, x)
      BY <2>2, <3>1, <3>2
    <3>5. \A x \in leciona' : \E r \in Linhas("ofertas") : DizLeciona(r, x)'
      BY <2>5, <3>3, <3>4
    <3> QED BY <1>3, <3>3, <3>5 DEF SentidoCursos
  <2> QED BY <2>9, <2>10, <2>11 DEF Dados
<1> QED BY <1>5, <1>6 DEF LeLinha

LEMMA DadosSempre ==
    ASSUME IdsDiferentes
    PROVE  Spec => []Dados
<1>0. ASSUME Comecados = {}, \A l \in Carregadores : porId[l] = {}, leciona = {}
      PROVE  Dados
  BY <1>0 DEF Dados, Sentido, SentidoCursos, Cobre
<1>1. Init => Dados
  BY <1>0, ImportacaoAssumption DEF Init, Comecados
<1>2. ASSUME MapasJuntos, ChavesDadas, Ordem, Dados, [Next]_vars PROVE Dados'
  <2>1. ASSUME NEW l \in Carregadores, Inicia(l) PROVE Dados'
    <3>1. /\ UNCHANGED <<planilhas, porId, leciona>> /\ atual = Nulo /\ atual' = l
          /\ prontos' = prontos /\ restam' = planilhas[Pasta[l]] /\ l # Nulo
      BY <2>1, ImportacaoAssumption DEF Inicia
    <3>2. Comecados' = Comecados \cup {l}
      BY <3>1 DEF Comecados
    <3>3. \A r \in Linhas(Pasta[l]) : r \in Pendentes'
      BY <3>1 DEF Linhas, Pendentes, DasFolhas
    <3>4. \A k \in Carregadores \cap Comecados' : \A r \in Linhas(Pasta[k]) :
             \/ k \in Comecados /\ (k = atual /\ r \in Pendentes => Feito(k, r))
             \/ k = atual' /\ r \in Pendentes'
      BY <3>1, <3>2, <3>3, ImportacaoAssumption
    <3> QED BY <1>2, <3>1, <3>2, <3>4, SoControle
  <2>2. ASSUME NEW f \in restam, AbreArquivo(f) PROVE Dados'
    <3>1. /\ UNCHANGED <<planilhas, porId, leciona>> /\ UNCHANGED <<prontos, atual>>
          /\ linhas = <<>> /\ linhas' = f /\ restam' = restam \ {f}
      BY <2>2 DEF AbreArquivo
    <3>2. Comecados' = Comecados
      BY <3>1 DEF Comecados
    <3>3. \A r \in Pendentes : r \in Pendentes'
      <4>1. Len(linhas) = 0
        BY <3>1
      <4> QED BY <3>1, <4>1 DEF Pendentes, DasFolhas
    <3> QED BY <1>2, <3>1, <3>2, <3>3, SoControle
  <2>3. CASE LeLinha
    BY <1>2, <2>3, Leitura
  <2>4. CASE Termina
    <3>1. /\ UNCHANGED <<planilhas, porId, leciona>> /\ linhas = <<>> /\ restam = {}
          /\ prontos' = prontos \cup {atual} /\ atual' = Nulo /\ atual # Nulo
      BY <2>4 DEF Termina
    <3>2. Comecados' = Comecados
      BY <3>1 DEF Comecados
    <3>3. Pendentes = {}
      <4>1. Len(linhas) = 0
        BY <3>1
      <4> QED BY <3>1, <4>1 DEF Pendentes, DasFolhas
    <3> QED BY <1>2, <3>1, <3>2, <3>3, SoControle
  <2>5. CASE Liga
    <3>1. UNCHANGED <<prontos, atual, porId, leciona>> /\ Comecados = {}
      BY <1>2, <2>5 DEF Liga, Ordem
    <3>2. Comecados' = {}
      BY <3>1 DEF Comecados
    <3>3. leciona' = {} /\ \A l \in Carregadores : porId'[l] = {}
      BY <1>2, <3>1 DEF Dados, Sentido, SentidoCursos
    <3> QED BY <3>2, <3>3 DEF Dados, Sentido, SentidoCursos, Cobre
  <2>6. CASE Desliga
    <3>1. Comecados' = {} /\ leciona' = {} /\ \A l \in Carregadores : porId'[l] = {}
      BY <2>6 DEF Desliga, Comecados
    <3> QED BY <3>1 DEF Dados, Sentido, SentidoCursos, Cobre
  <2>7. CASE Aborta \/ UNCHANGED vars
    <3>1. UNCHANGED <<planilhas, porId, leciona>> /\ UNCHANGED <<prontos, atual, restam, linhas>>
      BY <2>7 DEF Aborta, vars
    <3>2. Comecados' = Comecados /\ Pendentes' = Pendentes
      BY <3>1 DEF Comecados, Pendentes, DasFolhas
    <3> QED BY <1>2, <3>1, <3>2, SoControle
  <2> QED BY <1>2, <2>1, <2>2, <2>3, <2>4, <2>5, <2>6, <2>7 DEF Next, Passo
<1> QED BY <1>1, <1>2, MapasSempreJuntos, OrdemSempre, PTL DEF Spec

-----------------------------------------------------------------------------
(* A server that is ready knows what the rows say                           *)

\* Everything was read.
TudoDito ==
    \A l \in Carregadores :
        /\ \A e, f \in porId[l] : e.chave = f.chave => e = f
        /\ \A e \in porId[l] : \E r \in Linhas(Pasta[l]) : Diz(l, r, e)
        /\ \A r \in Linhas(Pasta[l]) : Feito(l, r)

\* With one object for each key there is one object where there is one key.
LEMMA ChaveUnica ==
    ASSUME NEW S, \A x, y \in S : x.chave = y.chave => x = y
    PROVE  UmSo(S) <=> UmSo(Chaves(S))
<1>1. ASSUME NEW x \in S, S = {x} PROVE Chaves(S) = {x.chave} /\ x.chave \in Chaves(S)
  BY <1>1 DEF Chaves
<1>2. ASSUME NEW k \in Chaves(S), Chaves(S) = {k} PROVE \E x \in S : S = {x}
  <2>1. PICK x \in S : x.chave = k
    BY <1>2 DEF Chaves
  <2>2. \A y \in S : y.chave \in Chaves(S)
    BY DEF Chaves
  <2>3. \A y \in S : y = x
    BY <1>2, <2>1, <2>2
  <2>4. S = {x}
    BY <2>3
  <2> QED BY <2>4
<1> QED BY <1>1, <1>2 DEF UmSo

LEMMA CursosProntos ==
    ASSUME TudoDito
    PROVE  CursosCertos
<1> DEFINE L == Linhas("curriculos")
<1>1. /\ "curso" \in Carregadores /\ "versao" \in Carregadores
      /\ Pasta["curso"] = "curriculos" /\ Pasta["versao"] = "curriculos"
  BY DEF Carregadores, Pasta
<1>2. /\ \A r, e : Diz("curso", r, e) <=> DizCurso(r, e)
      /\ \A r, e : Diz("versao", r, e) <=> DizVersao(r, e)
  BY DEF Diz
<1>3. Chaves(porId["curso"]) = { r.curso : r \in L } \ {Nulo}
  <2>1. ASSUME NEW e \in porId["curso"]
        PROVE  e.chave \in { r.curso : r \in L } \ {Nulo}
    <3>1. PICK r \in L : DizCurso(r, e)
      BY <1>1, <1>2 DEF TudoDito
    <3> QED BY <3>1 DEF DizCurso, Valida
  <2>2. ASSUME NEW r \in L, r.curso # Nulo
        PROVE  r.curso \in Chaves(porId["curso"])
    <3>1. Diz("curso", r, [chave |-> r.curso])
      BY <1>2, <2>2 DEF DizCurso, Valida
    <3>2. Tem("curso", r)
      BY <1>1 DEF TudoDito, Feito
    <3> QED BY <3>1, <3>2 DEF Tem
  <2> QED BY <2>1, <2>2 DEF Chaves
<1>4. Chaves(porId["versao"]) = Escritas
  <2>1. ASSUME NEW e \in porId["versao"]
        PROVE  e.chave \in Escritas
    <3>1. PICK r \in L : DizVersao(r, e)
      BY <1>1, <1>2 DEF TudoDito
    <3> QED BY <3>1 DEF DizVersao, Escritas, Valida
  <2>2. ASSUME NEW r \in L, Valida({r.versao, r.curso})
        PROVE  <<Ponto(r.versao), r.curso>> \in Chaves(porId["versao"])
    <3> DEFINE e == [chave |-> <<Ponto(r.versao), r.curso>>, curso |-> r.curso]
    <3>1. r.curso \in Chaves(porId["curso"])
      BY <1>3, <2>2 DEF Valida
    <3>2. Diz("versao", r, e)
      BY <1>2, <2>2, <3>1 DEF DizVersao, Valida
    <3>3. Tem("versao", r)
      BY <1>1 DEF TudoDito, Feito
    <3>4. e.chave \in Chaves(porId["versao"])
      BY <3>2, <3>3 DEF Tem
    <3> QED BY <3>4
  <2> QED BY <2>1, <2>2 DEF Chaves, Escritas
<1> QED BY <1>3, <1>4 DEF CursosCertos, Todos

\* The keys of the versions a query gives are those that begin as it says.
LEMMA VersoesParecidas ==
    ASSUME TudoDito, NEW r
    PROVE  /\ Chaves(Versoes(r.curso, r.versao)) = { v \in Escritas : Parece(v, r) }
           /\ UmSo(Versoes(r.curso, r.versao)) <=> UmSo(Chaves(Versoes(r.curso, r.versao)))
<1> DEFINE S == Versoes(r.curso, r.versao)
<1>1. "versao" \in Carregadores
  BY DEF Carregadores
<1>2. ASSUME NEW v \in porId["versao"] PROVE v.curso = v.chave[2]
  <2>1. PICK r1 : Diz("versao", r1, v)
    BY <1>1, <1>2 DEF TudoDito
  <2> QED BY <2>1 DEF Diz, DizVersao
<1>3. Chaves(porId["versao"]) = Escritas
  BY CursosProntos DEF CursosCertos, Todos
<1>4. Chaves(S) = { v \in Escritas : Parece(v, r) }
  BY <1>2, <1>3 DEF Chaves, Versoes, Parece, Todos
<1>5. \A x, y \in S : x.chave = y.chave => x = y
  BY <1>1 DEF TudoDito, Versoes, Todos
<1>6. UmSo(S) <=> UmSo(Chaves(S))
  BY <1>5, ChaveUnica
<1> QED BY <1>4, <1>6

\* A version that is written like the row, slashes apart, begins as the row says
\* when the row has none; and it has none when some version does begin so.
LEMMA PropriaParece ==
    ASSUME TextosComuns, NEW r
    PROVE  /\ Ponto(r.versao) = r.versao => Parece(Propria(r), r)
           /\ \A v \in Escritas : Parece(v, r) => Ponto(r.versao) = r.versao
<1>1. Propria(r)[1] = Ponto(r.versao) /\ Propria(r)[2] = r.curso
  BY DEF Propria
<1>2. Ponto(r.versao) = r.versao => Parece(Propria(r), r)
  BY <1>1 DEF Parece, TextosComuns
<1>3. ASSUME NEW v \in Escritas, Parece(v, r) PROVE Ponto(r.versao) = r.versao
  <2>1. PICK q : v = <<Ponto(q.versao), q.curso>>
    BY <1>3 DEF Escritas
  <2>2. Comeca(Ponto(q.versao), r.versao)
    BY <1>3, <2>1 DEF Parece
  <2> QED BY <2>2 DEF TextosComuns
<1> QED BY <1>2, <1>3

\* What a row says of a subject or of a student.
LEMMA DizVersaoPropria ==
    ASSUME TextosComuns, TudoDito, NEW k, NEW r
    PROVE  /\ \A e : DizComVersao(k, r, e) =>
                 /\ e.chave = k /\ Valida({k, r.curso, r.versao})
                 /\ IF Propria(r) \in Escritas
                    THEN e.versao = Propria(r)
                    ELSE e.versao \in Escritas /\ Parece(e.versao, r)
           /\ Clara(r) /\ k # Nulo => \E e : DizComVersao(k, r, e) /\ e.chave = k
<1> DEFINE S == Versoes(r.curso, r.versao)
<1>1. ASSUME NEW e, DizComVersao(k, r, e)
      PROVE  /\ e.chave = k /\ Valida({k, r.curso, r.versao})
             /\ IF Propria(r) \in Escritas
                THEN e.versao = Propria(r)
                ELSE e.versao \in Escritas /\ Parece(e.versao, r)
  <2>1. PICK v : S = {v} /\ e = [chave |-> k, versao |-> v.chave]
    BY <1>1 DEF DizComVersao
  <2>2. Chaves(S) = {v.chave}
    BY <2>1 DEF Chaves
  <2>3. { w \in Escritas : Parece(w, r) } = {v.chave}
    BY <2>2, VersoesParecidas
  <2>4. v.chave \in Escritas /\ Parece(v.chave, r)
    BY <2>3
  <2>5. Parece(Propria(r), r)
    BY <2>4, PropriaParece
  <2>6. Propria(r) \in Escritas => v.chave = Propria(r)
    BY <2>3, <2>5
  <2> QED BY <1>1, <2>1, <2>4, <2>6 DEF DizComVersao
<1>2. ASSUME Clara(r), k # Nulo
      PROVE  \E e : DizComVersao(k, r, e) /\ e.chave = k
  <2>1. Propria(r) \in Escritas /\ Parece(Propria(r), r)
    BY <1>2, PropriaParece DEF Clara
  <2>2. { w \in Escritas : Parece(w, r) } = {Propria(r)}
    BY <1>2, <2>1 DEF Clara
  <2>3. UmSo(S)
    BY <2>2, VersoesParecidas DEF UmSo
  <2>4. PICK v : S = {v}
    BY <2>3 DEF UmSo
  <2>5. Valida({k, r.curso, r.versao})
    BY <1>2 DEF Clara, Valida
  <2>6. DizComVersao(k, r, [chave |-> k, versao |-> v.chave])
    BY <2>4, <2>5 DEF DizComVersao
  <2> QED BY <2>6
<1> QED BY <1>1, <1>2

\* The same for all the rows of the subjects or of the students.
LEMMA ComVersaoPronta ==
    ASSUME TextosComuns, TudoDito, NEW l \in Carregadores, NEW coluna,
           \A r, e : Diz(l, r, e) <=> DizComVersao(r[coluna], r, e)
    PROVE  DeVersaoCerta(l, coluna)
<1>1. ASSUME NEW r \in Linhas(Pasta[l]), Clara(r), r[coluna] # Nulo
      PROVE  r[coluna] \in Chaves(porId[l])
  <2>1. PICK e : DizComVersao(r[coluna], r, e) /\ e.chave = r[coluna]
    BY <1>1, DizVersaoPropria
  <2>2. Tem(l, r)
    BY DEF TudoDito, Feito
  <2> QED BY <2>1, <2>2 DEF Tem
<1>2. ASSUME NEW x \in porId[l]
      PROVE  \E r \in Linhas(Pasta[l]) :
                /\ x.chave = r[coluna] /\ Valida({r[coluna], r.curso, r.versao})
                /\ IF Propria(r) \in Escritas
                   THEN x.versao = Propria(r)
                   ELSE x.versao \in Escritas /\ Parece(x.versao, r)
  <2>1. PICK r \in Linhas(Pasta[l]) : DizComVersao(r[coluna], r, x)
    BY DEF TudoDito
  <2> QED BY <2>1, DizVersaoPropria
<1> QED BY <1>1, <1>2 DEF DeVersaoCerta, Todos

LEMMA DisciplinasProntas ==
    ASSUME TextosComuns, TudoDito
    PROVE  DeVersaoCerta("disciplina", "disc") /\ Nulo \notin Chaves(porId["disciplina"])
<1>1. \A r, e : Diz("disciplina", r, e) <=> DizComVersao(r["disc"], r, e)
  BY DEF Diz
<1>2. DeVersaoCerta("disciplina", "disc")
  BY <1>1, ComVersaoPronta DEF Carregadores
<1> QED BY <1>2 DEF DeVersaoCerta, Todos, Valida, Chaves

LEMMA AlunosProntos ==
    ASSUME TextosComuns, TudoDito
    PROVE  DeVersaoCerta("aluno", "aluno") /\ Nulo \notin Chaves(porId["aluno"])
<1>1. \A r, e : Diz("aluno", r, e) <=> DizComVersao(r["aluno"], r, e)
  BY DEF Diz
<1>2. DeVersaoCerta("aluno", "aluno")
  BY <1>1, ComVersaoPronta DEF Carregadores
<1> QED BY <1>2 DEF DeVersaoCerta, Todos, Valida, Chaves

LEMMA TurmasProntas ==
    ASSUME TextosComuns, TudoDito
    PROVE  TurmasCertas
<1>1. "turma" \in Carregadores /\ Pasta["turma"] = "ofertas"
  BY DEF Carregadores, Pasta
<1>2. \A r, e : Diz("turma", r, e) <=> DizTurma(r, e)
  BY DEF Diz
<1>3. Nulo \notin Chaves(porId["disciplina"])
  BY DisciplinasProntas
<1> DEFINE rs == { r \in Linhas("ofertas") :
                     Valida({r.turma}) /\ r.disc \in Chaves(porId["disciplina"]) }
           Prof(r) == IF r.prof \in Chaves(porId["professor"]) THEN r.prof ELSE Nulo
<1>4. ASSUME NEW t \in porId["turma"]
      PROVE  \E r \in rs : <<r.disc, r.turma>> = t.chave /\ t.prof = Prof(r)
  <2>1. PICK r \in Linhas("ofertas") : DizTurma(r, t)
    BY <1>1, <1>2, <1>4 DEF TudoDito
  <2> QED BY <2>1 DEF DizTurma, Valida
<1>5. ASSUME NEW r \in rs
      PROVE  <<r.disc, r.turma>> \in Chaves(porId["turma"])
  <2> DEFINE e == [chave |-> <<r.disc, r.turma>>, prof |-> Prof(r)]
  <2>1. DizTurma(r, e)
    BY <1>3 DEF DizTurma, Valida
  <2>2. Tem("turma", r)
    BY <1>1 DEF TudoDito, Feito
  <2>3. e.chave \in Chaves(porId["turma"])
    BY <1>2, <2>1, <2>2 DEF Tem
  <2> QED BY <2>3
<1>6. Chaves(porId["turma"]) = { <<r.disc, r.turma>> : r \in rs }
  <2> HIDE DEF rs
  <2> QED BY <1>4, <1>5 DEF Chaves
<1> QED BY <1>4, <1>6 DEF TurmasCertas, Todos

LEMMA InscricoesProntas ==
    ASSUME TextosComuns, TudoDito
    PROVE  InscricoesCertas
<1>1. /\ "inscricao" \in Carregadores /\ Pasta["inscricao"] = "historicos"
      /\ "turma" \in Carregadores
  BY DEF Carregadores, Pasta
<1>2. \A r, e : Diz("inscricao", r, e) <=> DizInscricao(r, e)
  BY DEF Diz
<1>3. Nulo \notin Chaves(porId["aluno"])
  BY AlunosProntos
<1>4. \A k \in Chaves(porId["turma"]) : k[2] # Nulo
  BY TurmasProntas DEF TurmasCertas, Todos, Valida
<1>5. ASSUME NEW r
      PROVE  /\ UmSo(Turmas(r.disc, r.turma)) <=> UmSo(TurmasDe(r))
             /\ Chaves(Turmas(r.disc, r.turma)) = TurmasDe(r)
  <2> DEFINE S == Turmas(r.disc, r.turma)
  <2>1. Chaves(S) = TurmasDe(r)
    BY DEF Chaves, Turmas, TurmasDe, Todos
  <2>2. \A x, y \in S : x.chave = y.chave => x = y
    BY <1>1 DEF TudoDito, Turmas, Todos
  <2>3. UmSo(S) <=> UmSo(Chaves(S))
    BY <2>2, ChaveUnica
  <2> QED BY <2>1, <2>3
<1> DEFINE rs == { r \in Linhas("historicos") :
                     r.aluno \in Chaves(porId["aluno"]) /\ UmSo(TurmasDe(r)) }
<1>6. ASSUME NEW i \in porId["inscricao"]
      PROVE  \E r \in rs : \E k \in TurmasDe(r) : i.chave = <<r.aluno, k>>
  <2>1. PICK r \in Linhas("historicos") : DizInscricao(r, i)
    BY <1>1, <1>2, <1>6 DEF TudoDito
  <2>2. PICK t : Turmas(r.disc, r.turma) = {t} /\ i = [chave |-> <<r.aluno, t.chave>>]
    BY <2>1 DEF DizInscricao
  <2>3. UmSo(Turmas(r.disc, r.turma)) /\ t.chave \in Chaves(Turmas(r.disc, r.turma))
    BY <2>2 DEF UmSo, Chaves
  <2>4. r \in rs /\ t.chave \in TurmasDe(r)
    BY <1>5, <2>1, <2>3 DEF DizInscricao
  <2> QED BY <2>2, <2>4
<1>7. ASSUME NEW r \in rs, NEW k \in TurmasDe(r)
      PROVE  <<r.aluno, k>> \in Chaves(porId["inscricao"])
  <2>1. PICK t : Turmas(r.disc, r.turma) = {t}
    BY <1>5 DEF UmSo
  <2>2. t.chave = k
    BY <1>5, <2>1 DEF Chaves
  <2>3. r.aluno # Nulo /\ r.turma # Nulo
    BY <1>3, <1>4 DEF TurmasDe, Todos
  <2> DEFINE e == [chave |-> <<r.aluno, t.chave>>]
  <2>4. DizInscricao(r, e)
    BY <2>1, <2>3 DEF DizInscricao, Valida
  <2>5. Tem("inscricao", r)
    BY <1>1 DEF TudoDito, Feito
  <2>6. e.chave \in Chaves(porId["inscricao"])
    BY <1>2, <2>4, <2>5 DEF Tem
  <2> QED BY <2>2, <2>6
<1>8. Chaves(porId["inscricao"]) = UNION { { <<r.aluno, k>> : k \in TurmasDe(r) } : r \in rs }
  <2> DEFINE De(r) == { <<r.aluno, k>> : k \in TurmasDe(r) }
  <2> HIDE DEF rs
  <2>1. \A c \in Chaves(porId["inscricao"]) : \E r \in rs : c \in De(r)
    BY <1>6 DEF Chaves
  <2>2. \A r \in rs : \A c \in De(r) : c \in Chaves(porId["inscricao"])
    BY <1>7
  <2> HIDE DEF De
  <2>3. Chaves(porId["inscricao"]) = UNION { De(r) : r \in rs }
    BY <2>1, <2>2
  <2> QED BY <2>3 DEF De
<1> QED BY <1>8 DEF InscricoesCertas, Todos

LEMMA ProfessoresProntos ==
    ASSUME TudoDito, SentidoCursos
    PROVE  ProfessoresCertos
<1>1. "professor" \in Carregadores /\ Pasta["professor"] = "ofertas"
  BY DEF Carregadores, Pasta
<1> DEFINE rs == { r \in Linhas("ofertas") : Valida({r.prof, r.curso}) }
           Par(r) == <<r.prof, IF r.curso \in Chaves(porId["curso"]) THEN r.curso ELSE Nulo>>
<1>2. \A r, x : DizLeciona(r, x) <=> Valida({r.prof, r.curso}) /\ x = Par(r)
  BY DEF DizLeciona, Valida
<1>3. \A x \in leciona : \E r \in rs : x = Par(r)
  BY <1>2 DEF SentidoCursos
<1>4. \A r \in rs : Par(r) \in leciona
  BY <1>1, <1>2 DEF TudoDito, Feito, TemCurso
<1>5. leciona = { Par(r) : r \in rs }
  <2> HIDE DEF rs, Par
  <2> QED BY <1>3, <1>4
<1> QED BY <1>5 DEF ProfessoresCertos, Todos

\* A server that is ready knows all courses, versions and professors of the
\* spreadsheets, the subjects and students of the rows that can be taken in one
\* way, each in a version of his own if there is one, the classes of those
\* subjects and the registrations of those students, and nothing that no row
\* says, in whatever order folders were listed and DAOs built (the init() of the
\* seven DAOs).
THEOREM TudoLido ==
    ASSUME IdsDiferentes, TextosComuns
    PROVE  Spec => []Completo
<1>1. ASSUME Ordem, Dados PROVE Completo
  <2> SUFFICES ASSUME prontos = Carregadores
               PROVE  /\ CursosCertos
                      /\ DeVersaoCerta("disciplina", "disc")
                      /\ DeVersaoCerta("aluno", "aluno")
                      /\ ProfessoresCertos /\ TurmasCertas /\ InscricoesCertas
    BY DEF Completo
  <2>1. atual = Nulo /\ Comecados = Carregadores
    BY <1>1 DEF Ordem, Comecados
  <2>2. TudoDito
    BY <1>1, <2>1, ImportacaoAssumption DEF TudoDito, Dados, Sentido, Cobre
  <2>3. SentidoCursos
    BY <1>1 DEF Dados
  <2> QED BY <2>2, <2>3, CursosProntos, DisciplinasProntas, AlunosProntos,
             ProfessoresProntos, TurmasProntas, InscricoesProntas
<1> QED BY <1>1, OrdemSempre, DadosSempre, PTL

\* The registration of a student in a class, when a row of the student names a
\* version clearly, and so does one of the subject, is lost to nothing but ids
\* that are the same: with different ones retrieveAll() gives it (_DaoSie, and
\* hashCode() of Inscricao).  Rows that are not clear are lost with any ids.
THEOREM SoOsIdsTiram ==
    ASSUME IdsDiferentes, TextosComuns
    PROVE  Spec => []TodasAsInscricoes
<1>1. ASSUME Completo PROVE TodasAsInscricoes
  <2> SUFFICES ASSUME prontos = Carregadores,
                      NEW r \in Linhas("historicos"), NEW o \in Linhas("ofertas"),
                      NEW c \in Linhas("curriculos"),
                      Clara(r), Clara(c), Valida({r.aluno, o.disc, o.turma}),
                      c.disc = o.disc, r.disc = o.disc, r.turma = o.turma
               PROVE  <<r.aluno, <<o.disc, o.turma>>>> \in Chaves(Todos("inscricao"))
    BY DEF TodasAsInscricoes
  <2> DEFINE k == <<o.disc, o.turma>>
  <2>1. /\ DeVersaoCerta("disciplina", "disc") /\ DeVersaoCerta("aluno", "aluno")
        /\ TurmasCertas /\ InscricoesCertas
    BY <1>1 DEF Completo
  <2>2. /\ Pasta["disciplina"] = "curriculos" /\ Pasta["aluno"] = "historicos"
        /\ r.aluno # Nulo /\ o.disc # Nulo /\ o.turma # Nulo
    BY DEF Pasta, Valida
  <2>3. r.aluno \in Chaves(Todos("aluno"))
    BY <2>1, <2>2 DEF DeVersaoCerta
  <2>4. o.disc \in Chaves(Todos("disciplina"))
    BY <2>1, <2>2 DEF DeVersaoCerta
  <2>5. k \in Chaves(Todos("turma"))
    BY <2>1, <2>2, <2>4 DEF TurmasCertas, Valida
  <2>6. ASSUME NEW t \in Chaves(Todos("turma")) PROVE t = <<t[1], t[2]>>
    <3>1. \E q \in Linhas("ofertas") : t = <<q.disc, q.turma>>
      BY <2>1, <2>6 DEF TurmasCertas
    <3> QED BY <3>1
  <2>7. TurmasDe(r) = {k}
    <3>1. k \in TurmasDe(r)
      BY <2>5 DEF TurmasDe
    <3>2. ASSUME NEW t \in TurmasDe(r) PROVE t = k
      <4>1. t[2] = o.turma /\ t[1] = o.disc /\ t = <<t[1], t[2]>>
        BY <2>2, <2>6, <3>2 DEF TurmasDe
      <4> QED BY <4>1
    <3> QED BY <3>1, <3>2
  <2>8. UmSo(TurmasDe(r)) /\ k \in TurmasDe(r)
    BY <2>7 DEF UmSo
  <2> QED BY <2>1, <2>3, <2>8 DEF InscricoesCertas
<1> QED BY <1>1, TudoLido, PTL
=============================================================================
