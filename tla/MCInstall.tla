----------------------------- MODULE MCInstall ------------------------------
(***************************************************************************)
(* Install, with two manifests of two depots and one persisted file: the   *)
(* server is started with the latest, while the older one may be           *)
(* downloaded beside it, by its ID or as a build.                          *)
(***************************************************************************)
EXTENDS Install

MCHolds == [main |-> {"exe"}, extra |-> {"list"}]
Id(m) == [kind |-> "id", m |-> m]
Build(m) == [kind |-> "build", m |-> m]
MCVersions == [start |-> {Latest}, command |-> {Id(1), Build(1)}]

Hub == [token |-> TRUE, url |-> TRUE, repo |-> FALSE, user |-> FALSE,
        force |-> FALSE, files |-> {}, keys |-> FALSE]
NoUrl == [Hub EXCEPT !.url = FALSE]
NoKeys == [NoUrl EXCEPT !.token = FALSE, !.files = {1}]
Forced == [NoKeys EXCEPT !.force = TRUE, !.files = {}]
MCEnvs == {Hub, NoUrl, NoKeys, Forced}
=============================================================================
