------------------------------ MODULE MCBrowser -----------------------------
(* An application at https://app, on a second port and on the subdomains of  *)
(* a suffix; two workers whose clocks differ by up to three half seconds,    *)
(* against an allowance of one second and an age of one second.              *)
EXTENDS Browser, TLC

CONSTANTS w1, w2, v1

MCWorker == {w1, w2}
MCValue == {v1}
MCOffsets == {[w \in MCWorker |-> IF w = w1 THEN 0 ELSE ahead] : ahead \in {1, 3}}

App == Authority(<<"app">>, NoPort)
AppDot == Authority(<<"app", "">>, NoPort)
AppOnPort == Authority(<<"app">>, 8443)
SubNet == Authority(<<"a", "net">>, NoPort)

MCAllowedHosts == {<<"app">>, <<"", "net">>}
MCTrustedOrigins == {Origin("https", Authority(<<"pal">>, NoPort)),
                     Origin(AnyScheme, Authority(<<"", "org">>, NoPort)),
                     Origin(AnyScheme, Authority(<<"", "dev">>, 8080))}
MCSocketOrigins == {Origin("https", Authority(<<"pal">>, 443))}

MCOwnAddresses ==
  {Origin("https", a) : a \in {App, AppDot, AppOnPort, SubNet}} \cup {Origin("http", App)}
MCTrustedPages == {Origin("https", Authority(<<"pal">>, NoPort)),
                   Origin("http", Authority(<<"a", "org">>, 8080))}
MCSuffixWithPort == {Origin("http", Authority(<<"a", "dev">>, 8080))}
MCSocketPages == {Origin("https", Authority(<<"pal">>, NoPort))}

MCAddresses == MCOwnAddresses
  \cup {Origin("https", a) : a \in {Authority(<<"net">>, NoPort), Authority(<<"x", "app">>, NoPort),
                                   Authority(<<"", "">>, NoPort), Malformed}}
MCPages == MCOwnAddresses \cup MCTrustedPages \cup MCSuffixWithPort \cup {Malformed}
  \cup {Origin("https", Authority(name, NoPort)) : name \in {<<"net">>, <<"x", "app">>, <<"org">>, <<"x", "pal">>}}
  \cup {Origin("http", Authority(<<"pal">>, NoPort)), Origin("ftp", App)}
=============================================================================
