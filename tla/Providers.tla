----------------------------- MODULE Providers ------------------------------
(***************************************************************************)
(* One post of one account as its adapter sees the network: each call is   *)
(* sent, the network acts or not and answers or not, and the adapter turns *)
(* what came back into a result or one code of the taxonomy                *)
(* (src/providers/adapters/*, errors.ts, http.ts, registry.ts).  What the  *)
(* networks do is not in src: they may refuse in the body of a 200, accept *)
(* and still answer with an error, or not answer at all; a network told    *)
(* apart by an idempotency key makes one post of it.                       *)
(***************************************************************************)
EXTENDS Naturals

CONSTANTS
  Nets,        \* adapters: "bluesky", "line", "fake"
  BodyErrors,  \* error fields of a body, other than the ones named below
  MaxCallsOut  \* calls in a behaviour (a bound)

ASSUME ProvidersAssumption ==
  /\ Nets \subseteq {"bluesky", "line", "fake"}
  /\ BodyErrors \cap {"none", "RecordAlreadyExists"} = {}
  /\ MaxCallsOut \in Nat

VARIABLES
  network,  \* the account's network, fixed
  there,    \* what the network holds for this post: "post", "blob"
  wire,     \* the call under way and what came back of it
  reported, \* what the adapter told its caller of the last call: kind, outcome
  callsOut
providersVars == <<network, there, wire, reported, callsOut>>

(* The descriptors' flags, which registerAdapter compares with the methods. *)
Lookup == {"bluesky", "fake"}
Supported(n) ==
  {"publish", "revoke", "signIn", "refresh"}
    \cup (IF n \in {"bluesky", "fake"} THEN {"metrics", "delete"} ELSE {})
    \cup (IF n = "bluesky" THEN {"upload"} ELSE {})

Quiet == [at |-> "quiet"]
Silence == [lost |-> "no", status |-> 200, error |-> "none", ref |-> FALSE]
Errors == BodyErrors \cup {"none", "RecordAlreadyExists"}
Answers ==
  [lost : {"no"}, status : {200, 400, 401, 429, 500}, error : Errors, ref : BOOLEAN]
    \cup {[Silence EXCEPT !.lost = l] : l \in {"timeout", "dropped"}}

ProvidersInit ==
  /\ network \in Nets
  /\ there = {}
  /\ wire = Quiet
  /\ reported = <<"none", "none">>
  /\ callsOut = 0

Call(kind) ==
  /\ wire = Quiet /\ callsOut < MaxCallsOut
  /\ kind \in Supported(network)
  /\ kind \in {"metrics", "delete"} => "post" \in there
  /\ wire' = [at |-> "sent", kind |-> kind]
  /\ reported' = <<kind, "waiting">>
  /\ callsOut' = callsOut + 1
  /\ UNCHANGED <<network, there>>

(* What the network may answer having done what was asked, having refused   *)
(* it, and asked again for the post it already has.                         *)
Done(a) ==
  \/ a.lost # "no"
  \/ a.status = 200 /\ a.error = "none"
  \/ a.status = 500
  \/ a.status = 400 /\ a.error # "RecordAlreadyExists" /\ network \in Lookup
NotDone(a) ==
  /\ a.lost # "no" \/ a.status # 200 \/ a.error # "none"
  /\ a.error # "RecordAlreadyExists"
Again(a) ==
  \/ a.lost # "no" \/ a.status \in {429, 500}
  \/ IF network = "bluesky" THEN a.status = 400 /\ a.error = "RecordAlreadyExists"
                            ELSE a.status = 200 /\ a.error = "none"

Effect(kind) ==
  CASE kind = "publish" -> there \cup {"post"}
    [] kind = "upload"  -> there \cup {"blob"}
    [] kind = "delete"  -> there \ {"post"}
    [] OTHER            -> there

NetworkAnswers(a) ==
  /\ wire.at = "sent" /\ network # "fake"
  /\ wire' = [at |-> "back", kind |-> wire.kind, answer |-> a]
  /\ \/ /\ wire.kind = "publish" /\ "post" \in there /\ Again(a)
        /\ UNCHANGED there
     \/ /\ wire.kind = "publish" => "post" \notin there
        /\ Done(a) /\ there' = Effect(wire.kind)
     \/ /\ wire.kind = "publish" => "post" \notin there
        /\ NotDone(a) /\ UNCHANGED there
  /\ UNCHANGED <<network, reported, callsOut>>

-----------------------------------------------------------------------------
(* The adapters.  A body that names an error wins over the status; then the *)
(* status; then a missing reference.                                        *)
Good(a) == a.status = 200

BlueskyCode(a) ==
  IF a.status = 429 THEN "rate_limited"
  ELSE IF a.status = 401 \/ a.error = "ExpiredToken" THEN "auth_expired"
  ELSE IF a.status >= 500 THEN "provider_unavailable"
  ELSE IF a.error = "BlobTooLarge" THEN "invalid_media"
  ELSE "content_rejected"

LineCode(a) ==
  IF a.status = 429 THEN "rate_limited"
  ELSE IF a.status \in {401, 403} THEN "auth_expired"
  ELSE IF a.status >= 500 THEN "provider_unavailable"
  ELSE "content_rejected"

(* A timeout of a call that may have had its effect is ambiguous; what else *)
(* fetch throws is passed on as it is.                                      *)
Lost(a) == IF a.lost = "timeout" THEN "ambiguous" ELSE "raw"

BlueskyPublish(a) ==
  IF a.lost # "no" THEN Lost(a)
  ELSE IF a.error \in {"RecordAlreadyExists", "CouldNot"} THEN "ok"
  ELSE IF a.error # "none" \/ ~Good(a) THEN BlueskyCode(a)
  ELSE IF ~a.ref THEN "permanent_failure" ELSE "ok"

BlueskyUpload(a) ==
  IF a.lost # "no" THEN Lost(a)
  ELSE IF a.error # "none" THEN BlueskyCode(a)
  ELSE IF ~Good(a) \/ ~a.ref THEN "invalid_media" ELSE "ok"

(* xrpc: reads and deletes; their timeout is passed on as it is.            *)
BlueskyXrpc(a) ==
  IF a.lost # "no" THEN "raw"
  ELSE IF a.error # "none" \/ ~Good(a) THEN BlueskyCode(a) ELSE "ok"

(* Signing in and refreshing: whatever is not a token is an expired sign-in. *)
TokenAnswer(a) ==
  IF a.lost # "no" THEN "raw"
  ELSE IF a.error # "none" \/ ~Good(a) \/ ~a.ref THEN "auth_expired" ELSE "ok"

(* Mutant: only the status is looked at.                                   *)
LinePublishByStatus(a) ==
  IF a.lost # "no" THEN Lost(a) ELSE IF ~Good(a) THEN LineCode(a) ELSE "ok"

LinePublish(a) ==
  IF a.lost # "no" THEN Lost(a)
  ELSE IF a.error # "none" \/ ~Good(a) THEN LineCode(a) ELSE "ok"

Outcome(kind, a) ==
  CASE kind = "revoke" -> "ok"     \* its failure is swallowed
    [] kind = "publish" -> IF network = "line" THEN LinePublish(a) ELSE BlueskyPublish(a)
    [] kind = "upload" -> BlueskyUpload(a)
    [] kind = "signIn" -> TokenAnswer(a)
    [] kind = "refresh" -> IF network = "line" THEN "ok" ELSE TokenAnswer(a)
    [] OTHER -> BlueskyXrpc(a)

AdapterReports ==
  /\ wire.at = "back"
  /\ reported' = <<wire.kind, Outcome(wire.kind, wire.answer)>>
  /\ wire' = Quiet
  /\ UNCHANGED <<network, there, callsOut>>

(* The deterministic provider of the tests: a mode decides whether it       *)
(* records the post and what it throws.                                     *)
FakeModes == {"ok", "accept_then_timeout", "timeout_no_record", "body_error",
              "accept_then_reject", "fail"}
FakePublish(mode) ==
  /\ there' = IF mode \in {"ok", "accept_then_timeout", "accept_then_reject"}
              THEN Effect("publish") ELSE there
  /\ reported' \in {"publish"} \X
       (CASE mode = "ok" -> {"ok"}
          [] mode \in {"accept_then_timeout", "timeout_no_record"} -> {"ambiguous"}
          [] OTHER -> {"content_rejected", "rate_limited", "permanent_failure"})
FakeAnswers(mode) ==
  /\ wire.at = "sent" /\ network = "fake"
  /\ IF wire.kind = "publish" THEN FakePublish(mode)
     ELSE /\ there' = Effect(wire.kind)
          /\ reported' = <<wire.kind, IF wire.kind = "metrics" /\ mode = "fail"
                                      THEN "content_rejected" ELSE "ok">>
  /\ wire' = Quiet
  /\ UNCHANGED <<network, callsOut>>

ProvidersNext ==
  \/ \E kind \in {"publish", "revoke", "signIn", "refresh", "metrics", "delete", "upload"} : Call(kind)
  \/ \E a \in Answers : NetworkAnswers(a)
  \/ AdapterReports
  \/ \E m \in FakeModes : FakeAnswers(m)

ProvidersSpec == ProvidersInit /\ [][ProvidersNext]_providersVars

-----------------------------------------------------------------------------
(* RETRY_POLICY: what the publisher never tries again.                      *)
Terminal == {"invalid_media", "content_rejected", "duplicate_content", "permanent_failure"}

(* What an adapter reports is what happened: a success was performed, and a *)
(* terminal error of a network that cannot be asked for its recent posts    *)
(* left nothing behind (of the others the publisher looks first).  Http 200 *)
(* with an error in the body, a lost answer and a repeated key included.    *)
ReportedTruthfully ==
  /\ reported = <<"publish", "ok">> => "post" \in there
  /\ reported = <<"upload", "ok">> => "blob" \in there
  /\ reported = <<"delete", "ok">> => "post" \notin there
  /\ reported[1] = "publish" /\ reported[2] \in Terminal /\ network \notin Lookup
       => "post" \notin there
=============================================================================
