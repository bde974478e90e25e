---------------------------- MODULE MCComponents ----------------------------
(***************************************************************************)
(* Components that have no step in common, side by side for TLC: a          *)
(* behaviour is one of the component named by part, the others stay in      *)
(* their initial states.  The instances are chosen in the configurations    *)
(* and, where they are not numbers, below.                                  *)
(***************************************************************************)
EXTENDS Rwlock, Channel, Upstream, HttpRequest, FileCache, EventPipe, Http2,
        Resolver, Slab

CONSTANT Parts     \* the components to look at

VARIABLE part      \* the one that moves

Components ==
  {"rwlock", "channel", "upstream", "request", "cache", "pipe", "http2", "resolver",
   "slab"}

ASSUME PartsAssumption == Parts \subseteq Components

all == <<part, vars, chVars, upVars, hrVars, fcVars, epVars, h2, rs, sl>>

(* Components that do not move have one initial state.                      *)
CompInit ==
  /\ part \in Parts
  /\ Init /\ ChInit /\ UpInit /\ HrInit /\ FcInit /\ EpInit
  /\ HtInit /\ RsInit /\ SlInit
  /\ part # "cache" => file = 0
  /\ part # "http2" => h2.init = Min(FirstWindows)
  /\ part # "resolver" => rs.zone = CHOOSE z \in Zones : TRUE
  /\ part # "slab" => sl.use = CHOOSE u \in SlabUses : TRUE

(* Component x takes a step of its own; the others do not.                  *)
Only(x) ==
  /\ part = x
  /\ UNCHANGED part
  /\ IF x = "rwlock" THEN TRUE ELSE UNCHANGED vars
  /\ IF x = "channel" THEN TRUE ELSE UNCHANGED chVars
  /\ IF x = "upstream" THEN TRUE ELSE UNCHANGED upVars
  /\ IF x = "request" THEN TRUE ELSE UNCHANGED hrVars
  /\ IF x = "cache" THEN TRUE ELSE UNCHANGED fcVars
  /\ IF x = "pipe" THEN TRUE ELSE UNCHANGED epVars
  /\ IF x = "http2" THEN TRUE ELSE UNCHANGED h2
  /\ IF x = "resolver" THEN TRUE ELSE UNCHANGED rs
  /\ IF x = "slab" THEN TRUE ELSE UNCHANGED sl

CompNext ==
  \/ Only("rwlock") /\ Next
  \/ Only("channel") /\ ChNext
  \/ Only("upstream") /\ UpNext
  \/ Only("request") /\ HrNext
  \/ Only("cache") /\ FcNext
  \/ Only("pipe") /\ EpNext
  \/ Only("http2") /\ HtNext
  \/ Only("resolver") /\ RsNext
  \/ Only("slab") /\ SlNext

(* What tells two states apart: the component that moves.                   *)
Moving ==
  <<part, CASE part = "rwlock" -> <<vars>> [] part = "channel" -> <<chVars>>
            [] part = "upstream" -> <<upVars>> [] part = "request" -> <<hrVars>>
            [] part = "cache" -> <<fcVars>> [] part = "pipe" -> <<epVars>>
            [] part = "http2" -> <<h2>> [] part = "resolver" -> <<rs>>
            [] part = "slab" -> <<sl>> >>

CompSpec == CompInit /\ [][CompNext]_all

(* The component that moves goes on as long as it can, by the steps that    *)
(* its module says come about by themselves.                                *)
CompProgress ==
  \/ Only("rwlock") /\ RwStep
  \/ Only("upstream") /\ \E r \in Requests : UpProgress(r)
  \/ Only("request") /\ HrProgress
  \/ Only("cache") /\ FcProgress
  \/ Only("pipe") /\ EpProgress
  \/ Only("http2") /\ HtProgress
  \/ Only("resolver") /\ RsProgress

(* The name servers go on too.                                              *)
CompLiveSpec ==
  CompSpec /\ WF_all(CompProgress) /\ WF_all(Only("resolver") /\ RsServers)

----------------------------------------------------------------------------
(* Properties that take TLC long to evaluate, for the component that moves. *)

(* HttpRequest: the client gets the output of the subrequests in the order  *)
(* of the document, whatever order they answer in, and all of it if the     *)
(* request ends well.                                                       *)
OrderHolds == part = "request" => OutputInOrder

(* EventPipe: the client gets the server's response in order and without a  *)
(* gap, by way of memory or file, and a cache entry is the whole of it.     *)
PipeHolds == part = "pipe" => PipeFaithful

(* Resolver: nobody who waits for a name is forgotten or called twice, and  *)
(* the answers of both families, in any order, give everybody what the name *)
(* servers know.                                                            *)
ResolverHolds == part = "resolver" => ResolverSound

(* Slab: whatever order memory of a zone is asked for and freed in, no byte *)
(* is lost or given out twice, and free pages side by side are one run.     *)
SlabHolds == part = "slab" => SlabSound

----------------------------------------------------------------------------
(* The instances: two servers and a backup, the first with twice the        *)
(* weight, the second with at most one connection, for a request that may   *)
(* be repeated and one that may not.                                        *)
CONSTANTS pa, pb, pz, r1, r2

TwoPrimary == <<pa, pb>>
OneBackup == <<pz>>
Weights == [x \in Peers |-> IF x = pa THEN 2 ELSE 1]
ConnLimits == [x \in Peers |-> IF x = pb THEN 1 ELSE 0]
SafeAndPost == [r \in Requests |-> IF r = r1 THEN {"safe"} ELSE {"post"}]
AnyKind == [r \in Requests |-> {"safe", "post", "stream"}]

(* Two streams, the second with the higher priority and with trailers; or   *)
(* one, with and without a body.                                            *)
CONSTANTS sa, sb

Priorities == [s \in Streams |-> IF s = sa THEN 1 ELSE 0]
Answer(units, only, trailers) == [units |-> units, only |-> only, trailers |-> trailers]
TwoAnswers ==
  [s \in Streams |-> IF s = sa THEN {Answer(2, FALSE, FALSE)} ELSE {Answer(1, FALSE, TRUE)}]
LongOrNone == [s \in Streams |-> {Answer(2, FALSE, FALSE), Answer(0, TRUE, FALSE)}]

(* What the name servers know: an alias of a name with addresses of one     *)
(* family, two names that stand for each other, an alias of what is no      *)
(* name, and a name with addresses of both families.                        *)
CONSTANTS na, nb, nx

Data(x, y) == [cname |-> NoName, has |-> [f \in Families |-> IF f = "A" THEN x ELSE y]]
AliasOf(n) == [cname |-> n, has |-> [f \in Families |-> "empty"]]
ZoneOf(x, y) ==
  [n \in Names |-> CASE n = na -> x [] n = nb -> y [] OTHER -> Data("empty", "empty")]
FourZones ==
  {ZoneOf(AliasOf(nb), Data("addr", "empty")), ZoneOf(AliasOf(nb), AliasOf(na)),
   ZoneOf(AliasOf(nx), Data("other", "empty")), ZoneOf(Data("addr", "addr"), Data("other", "other"))}
OneZone == {ZoneOf(AliasOf(nb), Data("addr", "other"))}
=============================================================================
