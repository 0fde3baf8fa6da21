---------------------------- MODULE MCRipcExchange ----------------------------
(* A page of six bytes, with urls that leave room, fill it up to its last  *)
(* byte and do not fit, payloads that hold the marks of the headers, and   *)
(* patterns that overlap, one of them for the empty url.                   *)
EXTENDS RipcExchange

SmallChars == {"/", "a", "h", "q", "t", "0", "7"}

SmallUrls == {<<"a">>, <<"0", "7">>, <<"/", "a", "/", "7">>,
              <<"a", "a", "a", "a", "a">>,
              <<"a", "a", "a", "a", "a", "a", "a">>}

SmallHeaders == {<<>>, <<"h">>}
SmallPayloads == {<<>>, <<NL>>, <<"q", TAB, "t">>}

Special == {<<"/">>, <<"a">>, <<"7">>, <<"<string>", "/", "7">>}
Marked == {<<"<string>">>, <<"<int>">>, <<"a", "/", "<int>">>}

SmallTables == {{}, Special, Marked, Special \cup Marked}

===============================================================================
