------------------------------ MODULE MCSiloNames ------------------------------
(***************************************************************************)
(* A tenant and the administrator with two silo names each; a tenant       *)
(* who chooses silo names with an "_"; and tenants with one in their own.  *)
(***************************************************************************)
EXTENDS SiloNames

MCAdmin == <<"admin">>

PlainNames == [users  |-> {MCAdmin, <<"b">>},
               titles |-> {<<"b">>, <<"c">>}]

LongTitles == [users  |-> {MCAdmin, <<"a">>},
               titles |-> {<<"b">>, <<"b", "c">>, <<"c", "b">>}]

LongUsers == [users  |-> {MCAdmin, <<"a">>, <<"a", "b">>},
              titles |-> {<<"b">>, <<"b", "c">>}]

MCSessions == {PlainNames, LongTitles, LongUsers}
===============================================================================
