----------------------------- MODULE MCRegistry -----------------------------
(***************************************************************************)
(* A small instance of Registry: a Traefik and a Docker provider and one   *)
(* manual entry.  Traefik has two routers, whose hosts change, become      *)
(* aliases of each other, swap and disappear; the Docker container keeps   *)
(* its native key and changes its label and its address.                   *)
(***************************************************************************)
EXTENDS Registry, TLC

CONSTANTS a1, a2, a3

MCExplicit == {"explicit:e1", "explicit:e2"}
MCAddresses == {"url:u1", "url:u2"}
MCKeys == MCExplicit \cup MCAddresses \cup {"native:t1", "native:t2", "native:old", "native:c"}
MCSources == {"t1", "t2", "old", "c", "m"}
MCScopes == {"traefik", "docker", "manual"}
MCManual == {"manual"}
MCTraefik == {"traefik"}
MCScopeOf == [s \in MCSources |-> IF s = "c" THEN "docker" ELSE IF s = "m" THEN "manual"
                                  ELSE "traefik"]
MCTexts == {"x", "y"}
MCPatches == {[text |-> t, flag |-> "unset"] : t \in MCTexts} \cup
             {[text |-> Unset, flag |-> "yes"]}

Observation(s, keys, alias) == [source |-> s, keys |-> keys, alias |-> alias, internal |-> FALSE]

MCSnapshots ==
    [p \in MCScopes |->
        CASE p = "traefik" ->
               {<<>>,
                <<Observation("t1", <<"native:t1", "url:u1">>, TRUE),
                  Observation("t2", <<"native:t2", "url:u2">>, TRUE)>>,
                <<Observation("t1", <<"native:t1", "url:u1", "url:u2">>, TRUE)>>,
                <<Observation("t1", <<"native:t1", "url:u2">>, TRUE),
                  Observation("t2", <<"native:t2", "url:u1">>, TRUE)>>}
          [] p = "docker" ->
               {<<>>,
                <<Observation("c", <<"explicit:e1", "native:c", "url:u1">>, FALSE)>>,
                <<Observation("c", <<"explicit:e2", "native:c", "url:u2">>, FALSE)>>,
                <<Observation("c", <<"native:c", "url:u2">>, FALSE)>>}
          [] p = "manual" -> {<<Observation("m", <<"url:u2">>, FALSE)>>}]

\* A registry an older version left: it recorded Traefik's internal routers.
Legacy ==
    [EmptyDb EXCEPT !.apps = {a1}, !.ever = {a1}, !.owner["native:old"] = a1,
                    !.obs["old"] = [app |-> a1, keys |-> {"native:old"}, present |-> TRUE,
                                    internal |-> TRUE]]
\* Two routers' apps that the owner edited, one of them on a page.
CuratedPair(a, b) ==
    [EmptyDb EXCEPT !.apps = {a, b}, !.ever = {a, b}, !.placed = {b},
                    !.owner = [@ EXCEPT !["native:t1"] = a, !["url:u1"] = a,
                                        !["native:t2"] = b, !["url:u2"] = b],
                    !.obs["t1"] = [app |-> a, keys |-> {"native:t1", "url:u1"}, present |-> TRUE,
                                   internal |-> FALSE],
                    !.obs["t2"] = [app |-> b, keys |-> {"native:t2", "url:u2"}, present |-> TRUE,
                                   internal |-> FALSE],
                    !.prefs[a] = [text |-> "x", flag |-> "unset"],
                    !.prefs[b] = [text |-> Unset, flag |-> "yes"]]
MCDatabases == {EmptyDb, Legacy} \cup {CuratedPair(a1, b) : b \in {a2, a3}}

AppSymmetry == Permutations({a2, a3})
=============================================================================
