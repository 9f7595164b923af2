------------------------------ MODULE MCSessao ------------------------------
(***************************************************************************)
(* An instance of Sessao for TLC.                                          *)
(***************************************************************************)
EXTENDS Sessao

\* One page: the administrator and a professor who is a coordinator have it; a
\* student, and a professor who is not one, have no page but the index.
MCPaginas == {"/sie/alunos.jsf"}
=============================================================================
