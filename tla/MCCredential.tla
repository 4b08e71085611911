---------------------------- MODULE MCCredential ----------------------------
(* Requests of up to five lines, one of them odd.                            *)
EXTENDS Credential

\* Two hosts, one of them served; a path with and without its suffix; the three things
\* that can be said about a capability.
MCGood == {<<"protocol", "=", "https">>,
           <<"host", "=", "h">>,
           <<"path", "=", "o", "/", "r">>,
           <<"path", "=", "o", "/", "r", ".git">>,
           <<"capability[]", "=", "authtype">>,
           <<"capability[]", "=">>}

MCOdd == {<<"host", "=", "x">>,
          <<"host", "=">>,
          <<"host", "=", "h", "CR">>,
          <<"host", "=", "h", "h", "h", "h", "h">>,
          <<"host", " ", "=", "h">>,
          <<"path", "=", ".git">>,
          <<"path", "=", "r">>,
          <<"path", "=", "o", "/", "r", "/">>,
          <<"path", "=", "o", "/", "=", "r">>,
          <<"path", "=", "0xff">>,
          <<"wwwauth[]", "=", "0xff">>,
          <<"capability[]", "=", "state">>,
          <<"=", "h">>,
          <<"h">>}

MCLines == MCGood \cup MCOdd
MCHosts == {<<"h">>}
MCTokens == {<<"t">>, <<"t", "=", "t">>, <<"t", "LF">>, <<"t", "CR">>}
MCExpiries == {-1, 0, 5}
=============================================================================
