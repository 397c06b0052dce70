------------------------------ MODULE MCReplies ------------------------------
(***************************************************************************)
(* Replies with every kind of frame, good and bad.                         *)
(***************************************************************************)
EXTENDS Replies

Asked(type, lengths) == {[type |-> type, length |-> n] : n \in lengths}
EveryKind == Asked("commands", {2, 3, 5}) \union Asked("ping", {1}) \union Asked("status", {1, 2})
               \union Asked("load", {2}) \union Asked("other", {1})
=============================================================================
