------------------------------- MODULE MCLog -------------------------------
(* A small instance of the logs and their arena. *)
EXTENDS TdoLogProperties

SomeTables == <<3, 1>>
SomeParts == <<<<<<"step", 1>>>>, <<<<"step", 2>>, <<"step", 3>>>>>>
=============================================================================
