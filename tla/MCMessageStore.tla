--------------------------- MODULE MCMessageStore ---------------------------
(* Instances of MessageStore for TLC. *)
EXTENDS MessageStore

CONSTANTS c1, c2

\* Two topics under the filter, one beside it, one of the broker's own.
MCPublished == {<<"a", "b">>, <<"b", "b">>, <<"a">>, <<"$SYS", "b">>}

MCStoreFilter == <<"+", "b">>
=============================================================================
