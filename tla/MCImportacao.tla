---------------------------- MODULE MCImportacao ----------------------------
(***************************************************************************)
(* Instances of Importacao for TLC.                                        *)
(***************************************************************************)
EXTENDS Importacao, FiniteSetsExt

Curriculo(c, v, d) == [curso |-> c, versao |-> v, disc |-> d]
Oferta(c, p, d, t) == [curso |-> c, prof |-> p, disc |-> d, turma |-> t]
Historico(c, v, a, d, t) == [curso |-> c, versao |-> v, aluno |-> a, disc |-> d, turma |-> t]

\* "AB" starts with "A", and "10" and "1.2" with "1".
MCComeca(x, y) ==
    \/ x = y
    \/ y = "A" /\ x = "AB"
    \/ y = "1" /\ x \in {"10", "1.2", "1/2"}

MCPonto(v) == IF v = "1/2" THEN "1.2" ELSE v

\* Ids without a collision, and ids of two registrations that collide, as
\* those of 0000057BCC in GCC1106, class 610001 of 2016.2, and of 0000430BCC in
\* GCC1141, class 610001 of 2017.2.
MCId(l, k) == k
MCIdColide(l, k) ==
    IF l = "inscricao" /\ k = <<"a2", <<"d2", "t">>>> THEN <<"a1", <<"d1", "t">>>> ELSE k

\* Folders of one or two files of one row.
Dois(S) == { {<<q>>, <<r>>} : q, r \in S }

\* Spreadsheets of one row, which the server may list in any order.
LinhasCurriculo ==
    { Curriculo("A", "1", "d1"), Curriculo("AB", "1", "d1"), Curriculo("A", "10", "d1"),
      Curriculo("A", "1/2", "d2"), Curriculo("B", "1", Nulo), Curriculo("B", "2", "d2") }
LinhasOferta ==
    { Oferta("A", "p1", "d1", "t"), Oferta("B", "p1", "d1", "t"), Oferta("C", "p2", "d1", "t"),
      Oferta("A", Nulo, "d1", "t"), Oferta(Nulo, "p3", "d1", "t") }
LinhasHistorico ==
    { Historico("AB", "1", "a1", "d1", "t"), Historico("A", "1", "a1", "d1", "t"),
      Historico("B", "1", "a2", "d1", "t") }

MCOrdens ==
    { [curriculos |-> c, ofertas |-> o, historicos |-> h] :
        c \in { { <<r>> : r \in S } : S \in UNION { kSubset(n, LinhasCurriculo) : n \in 1..3 } },
        o \in Dois(LinhasOferta), h \in Dois(LinhasHistorico) }

\* Spreadsheets of several rows, empty rows and folders, and broken ones.
MCFolhas ==
    { [curriculos |-> c, ofertas |-> o, historicos |-> h] :
        c \in { { <<Curriculo("A", "1", "d1"), Curriculo("B", "2", "d2")>> },
                { <<Curriculo("A", "1", "d1"), Vazia>> }, { <<>>, <<Curriculo("A", "1", "d1")>> },
                { <<Ilegivel>> }, {} },
        o \in { { <<Oferta("A", "p1", "d1", "t"), Oferta("B", "p1", "d2", "t")>>,
                  <<Oferta("C", "p2", "d1", "u")>> },
                { <<Oferta("A", "p1", "d1", "t"), Vazia>> }, {} },
        h \in { { <<Historico("A", "1", "a1", "d1", "t"), Vazia, Historico("B", "2", "a2", "d2", "t")>> },
                { <<Vazia>>, <<Historico("A", "1", "a1", Nulo, "t"),
                               Historico("A", "1", "a1", "d2", "t"),
                               Historico("A", "1", "a1", "d1", "u")>> },
                { <<Ilegivel>> } } }

MCPlanilhas == MCFolhas \cup MCOrdens
=============================================================================
