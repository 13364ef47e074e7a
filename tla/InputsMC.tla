------------------------------ MODULE InputsMC ------------------------------
(* Numbers on each side of every bound; a network of one address, one of two *)
(* with the server itself, and one of the other family; a first file of        *)
(* servers that is a local stub, or not.                                     *)
EXTENDS Inputs

MCNets == {{Host(4, "a")}, {Host(4, "a"), Host(4, "b"), Host(4, "here")}, {Host(6, "a")}}
MCApi == {Host(4, "a"), Host(4, "b"), Host(6, "b")}
MCFiles == {<<>>, <<{Host(4, "loopback")}, {Host(4, "b")}>>,
            <<{Host(4, "a"), Host(6, "b")}, {Host(4, "b")}>>}
MCColumns == {IisDefault, <<"c-ip", "sc-status">>, <<"cs-method", "sc-status">>,
              <<"s-ip", "cs-method">>, <<"cs-method">>}
=============================================================================
