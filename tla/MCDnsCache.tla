---------------------------- MODULE MCDnsCache ----------------------------
(***************************************************************************)
(* DnsCache for TLC.  The first address of the device, which Init chooses  *)
(* and no step changes, says which of two instances a behaviour is of:     *)
(*                                                                         *)
(* home    one unlock or unblock at a time, every silent change but those  *)
(*         of addresses, queries for one address and every name, failures; *)
(* mobile  two calls that lock or block overlap, the second address of the *)
(*         device changes, queries are for every address and one name.     *)
(*                                                                         *)
(* A step of MCNext is a step of Next, and the steps it leaves out are not *)
(* those whose fairness is assumed.                                        *)
(***************************************************************************)
EXTENDS DnsCache

CONSTANTS home, mobile, game, w1, w2

AtHome == db.addr[1] = home

\* The second call is made while the first is under way.
Called(w, kind) ==
    IF AtHome THEN w = w1 /\ kind \in {"unlock", "unblock"}
              ELSE (w = w2 => writer[w1].pc # "idle") /\ kind \in {"lock", "block"}

Queried(ip, dom) == IF AtHome THEN ip = home ELSE dom = game

MCNext ==
    \/ \E r \in Readers :
          \/ \E ip \in IPs, dom \in Domains : Queried(ip, dom) /\ CheckStart(r, ip, dom)
          \/ ReaderStep(r)
          \/ CheckFails(r)
    \/ \E w \in Writers :
          \/ \E kind \in Kinds : Called(w, kind) /\ WriteStart(w, kind)
          \/ WriteUpdate(w) \/ BumpSkip(w) \/ BumpRead(w) \/ BumpSet(w) \/ WriteReturn(w)
          \/ AtHome /\ AdapterFails(w)
          \/ AtHome /\ BumpFails(w)
    \/ AtHome /\ Bedtime
    \/ AtHome /\ GatewayBlock
    \/ AtHome /\ SessionChange
    \/ AtHome /\ DomainChange
    \/ AtHome /\ CategoryChange
    \/ ~AtHome /\ MoveAddress /\ \A s \in {1, 3} : db'.addr[s] = db.addr[s]
    \/ \E ip \in IPs : \/ AtHome /\ VersionExpire(ip)
                       \/ \E dom \in Domains : Expire(ip, dom)

MCSpec == Init /\ [][MCNext]_vars /\ Fairness
===========================================================================
