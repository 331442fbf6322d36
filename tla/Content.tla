------------------------------ MODULE Content -------------------------------
(***************************************************************************)
(* From a draft to what one target publishes: the merge of shared content  *)
(* with the target's override, the rendering, the findings that decide     *)
(* whether it may be scheduled, the split into a thread, the crop of an    *)
(* image, and the payload frozen at scheduling (src/posts/content.ts,      *)
(* threads.ts, validate.ts, service.ts, src/media/variants.ts,             *)
(* src/scheduling/schedule.ts, src/providers/validate.ts).  A word is its  *)
(* length, a sentence a sequence of words, a text its sentences and the    *)
(* hashtags it ends with.                                                  *)
(***************************************************************************)
EXTENDS Integers, FiniteSets, SequencesExt

CONSTANTS
  Drafts,   \* what may be asked: descriptor, shared content, override, account, times
  Library,  \* media_assets: kind, status, bytes, width, height, seconds
  Unset     \* an override column that is null, a missing asset, nothing frozen yet

VARIABLES
  asked,    \* the draft asked about, or Unset
  verdict,  \* validatePostService's response for its target, or Unset
  frozen    \* rendered_payload, Unset, or the error scheduling ended with
contentVars == <<asked, verdict, frozen>>

(* A text's last word may run into its hashtags ("foo#bar"): it is glued.   *)
Text == [body : Seq(Seq(Nat)), tags : Seq(Nat), glued : BOOLEAN]
Asset == [kind : {"image", "gif", "video"}, status : STRING, bytes : Nat,
          width : Nat, height : Nat, seconds : Nat]  \* 0: the probe did not tell
Capabilities ==
  [limit : Nat, thread : BOOLEAN, linksCount : BOOLEAN, kinds : SUBSET STRING, min : Nat,
   max : Nat, shapes : SUBSET ((Nat \ {0}) \X (Nat \ {0})), tolerance : Nat, maxSeconds : Nat,
   maxImage : Nat, maxVideo : Nat, comment : BOOLEAN, surface : STRING]
Shared == [text : Text, link : Nat, comment : STRING, media : Seq(DOMAIN Library)]
Overrides == [text : Text \cup {Unset}, link : Nat \cup {Unset}, comment : STRING \cup {Unset},
              media : Seq(DOMAIN Library) \cup {Unset}]

ASSUME ContentAssumption ==
  /\ Unset \notin Drafts
  /\ \A a \in DOMAIN Library : Library[a] \in Asset \cup {Unset}
  /\ \A d \in Drafts : /\ d.caps \in Capabilities /\ IsFiniteSet(d.caps.shapes)
                       /\ d.parent \in Shared /\ d.over \in Overrides

-----------------------------------------------------------------------------
(* Text, and its split into a thread.                                       *)
LengthOf(words) ==
  LET sum[i \in 0 .. Len(words)] == IF i = 0 THEN 0 ELSE sum[i - 1] + words[i]
  IN  sum[Len(words)]
Width(words) == IF words = <<>> THEN 0 ELSE LengthOf(words) + Len(words) - 1
BodyWords(t) == FlattenSeq(t.body)

(* The words as they stand: a hashtag sign inside a word does not end it.   *)
Words(t) ==
  LET b == BodyWords(t) IN
  IF t.glued /\ b # <<>> /\ t.tags # <<>>
  THEN Front(b) \o <<Last(b) + Head(t.tags)>> \o Tail(t.tags)
  ELSE b \o t.tags

Flushed(acc) == IF acc.cur = <<>> THEN acc.parts ELSE Append(acc.parts, acc.cur)

(* Mutant: a part is closed after it is too long.                          *)
PackWordLate(limit, acc, w) ==
  IF acc.cur # <<>> /\ Width(acc.cur) > limit
  THEN [parts |-> Flushed(acc), cur |-> <<w>>]
  ELSE [acc EXCEPT !.cur = Append(@, w)]

(* A sentence that is too long is packed word by word.                      *)
PackWord(limit, acc, w) ==
  IF acc.cur # <<>> /\ Width(Append(acc.cur, w)) > limit
  THEN [parts |-> Flushed(acc), cur |-> <<w>>]
  ELSE [acc EXCEPT !.cur = Append(@, w)]

PackWords(limit, acc, s) ==
  LET packed[i \in 0 .. Len(s)] ==
        IF i = 0 THEN [parts |-> Flushed(acc), cur |-> <<>>] ELSE PackWord(limit, packed[i - 1], s[i])
  IN  packed[Len(s)]
PackSentence(limit, acc, s) ==
  IF Width(s) > limit THEN PackWords(limit, acc, s)
  ELSE IF acc.cur # <<>> /\ Width(acc.cur \o s) > limit
       THEN [parts |-> Flushed(acc), cur |-> s]
       ELSE [acc EXCEPT !.cur = @ \o s]

SplitIntoThread(t, limit) ==
  IF Width(Words(t)) <= limit THEN <<Words(t)>>
  ELSE LET packed[i \in 0 .. Len(t.body)] ==
             IF i = 0 THEN [parts |-> <<>>, cur |-> <<>>]
             ELSE PackSentence(limit, packed[i - 1], t.body[i])
           parts == Flushed(packed[Len(t.body)])
       IN  IF t.tags = <<>> THEN parts
           ELSE IF parts # <<>> /\ Width(Last(parts) \o t.tags) <= limit
                THEN Front(parts) \o <<Last(parts) \o t.tags>>
                ELSE Append(parts, t.tags)

-----------------------------------------------------------------------------
(* mergeContent: an override column that is set wins, an empty one too.     *)
MergeContent(parent, over) ==
  [f \in DOMAIN parent |-> IF over[f] = Unset THEN parent[f] ELSE over[f]]

Ready(a) == Library[a] # Unset /\ Library[a].status = "ready"
(* renderTarget: assets that are gone or not ready are left out.            *)
ReadyOf(media) ==
  LET kept[i \in 0 .. Len(media)] ==
        IF i = 0 THEN <<>>
        ELSE IF Ready(media[i]) THEN Append(kept[i - 1], media[i]) ELSE kept[i - 1]
  IN  kept[Len(media)]
RenderTarget(merged) ==
  LET ready == ReadyOf(merged.media) IN
  [merged EXCEPT !.media = [i \in DOMAIN ready |-> Library[ready[i]]]]

(* Ratios are compared as fractions; the tolerance is in hundredths.        *)
Gap(w, h, r) == LET d == w * r[2] - r[1] * h IN IF d < 0 THEN -d ELSE d
Within(caps, w, h, r) == 100 * Gap(w, h, r) <= caps.tolerance * h * r[2]
(* Every caller lets a size that is not known pass.                         *)
AspectMatches(caps, w, h) ==
  caps.shapes = {} \/ w = 0 \/ h = 0 \/ \E r \in caps.shapes : Within(caps, w, h, r)

(* validateAgainstCapabilities: what the adapter itself would refuse.       *)
When(b, code) == IF b THEN {code} ELSE {}
ItemErrors(caps, m) ==
  IF m.kind \notin caps.kinds THEN {"media_type_unsupported"}
  ELSE When(m.kind = "video" /\ m.seconds > caps.maxSeconds, "video_too_long")
       \cup When(m.kind = "video" /\ m.bytes > caps.maxVideo, "video_too_large")
       \cup When(m.kind # "video" /\ m.bytes > caps.maxImage, "image_too_large")
AdapterErrors(caps, post) ==
  LET n == Len(post.media)
      items == {post.media[i] : i \in 1 .. n}
  IN  When(Width(Words(post.text)) + (IF caps.linksCount THEN post.link ELSE 0) > caps.limit,
           "text_too_long")
      \cup When(n < caps.min, "too_few_media") \cup When(n > caps.max, "too_many_media")
      \cup (UNION {ItemErrors(caps, m) : m \in items})

(* validatePost for one target: the findings' codes.                        *)
Blockers == {"schedule_in_past", "account_reauth_required", "media_processing", "text_too_long",
             "too_few_media", "too_many_media", "media_type_unsupported", "video_too_long",
             "video_wrong_aspect"}
ItemFindings(caps, m) ==
  When(m.kind \notin caps.kinds, "media_type_unsupported")
  \cup When(m.kind = "video" /\ m.seconds > caps.maxSeconds, "video_too_long")
  \cup When(~AspectMatches(caps, m.width, m.height),
            IF m.kind = "video" THEN "video_wrong_aspect" ELSE "aspect_ratio")
Findings(d) ==
  LET merged == MergeContent(d.parent, d.over)
      post   == RenderTarget(merged)
      caps   == d.caps
      n      == Len(post.media)
      items  == {post.media[i] : i \in 1 .. n}
      long   == Width(Words(post.text)) > caps.limit
      named  == {merged.media[i] : i \in DOMAIN merged.media}
  IN  When(d.schedule = "fixed past", "schedule_in_past")
      \cup When(d.account # "active", "account_reauth_required")
      \cup When(\E a \in named : Library[a] # Unset /\ Library[a].status # "ready", "media_processing")
      \cup When(long /\ caps.thread, "text_will_split") \cup When(long /\ ~caps.thread, "text_too_long")
      \cup When(n < caps.min, "too_few_media")
      \cup When(n > caps.max, IF caps.max = 1 THEN "media_truncated" ELSE "too_many_media")
      \cup (UNION {ItemFindings(caps, m) : m \in items})
      \cup When(post.comment # "" /\ ~caps.comment, "first_comment_unsupported")
      \cup When(\E a \in named : ~Ready(a), "media_dropped")
      \cup When(caps.surface # "public_feed", "surface_not_public")

ValidatePost(d) ==
  LET post == RenderTarget(MergeContent(d.parent, d.over)) IN
  [findings    |-> Findings(d),
   canSchedule |-> Findings(d) \cap Blockers = {},
   preview     |-> post,
   resolvedAt  |-> d.schedule \in {"fixed past", "fixed", "audience", "queued at"},
   thread      |-> IF "text_will_split" \in Findings(d)
                   THEN SplitIntoThread(post.text, d.caps.limit) ELSE <<>>]

(* computeVariantSpec: the closest permitted shape, cropped to; only images *)
(* can be cropped.                                                          *)
Rounded(a, b) == (2 * a + b) \div (2 * b)
Closest(shapes, w, h) ==
  CHOOSE r \in shapes : \A q \in shapes : Gap(w, h, r) * q[2] <= Gap(w, h, q) * r[2]
(* Mutant: width and height change places.                                 *)
ComputeVariantSwapped(caps, m) ==
  LET r == Closest(caps.shapes, m.width, m.height) IN
  IF AspectMatches(caps, m.width, m.height) THEN m
  ELSE IF m.width * r[2] > r[1] * m.height
       THEN [m EXCEPT !.height = Rounded(m.width * r[2], r[1])]
       ELSE [m EXCEPT !.width = Rounded(m.height * r[1], r[2])]

ComputeVariantSpec(caps, m) ==
  LET r == Closest(caps.shapes, m.width, m.height) IN
  IF AspectMatches(caps, m.width, m.height) THEN m
  ELSE IF m.kind = "video" THEN [m EXCEPT !.status = "unsatisfiable"]
  ELSE IF m.width * r[2] > r[1] * m.height
       THEN [m EXCEPT !.width = Rounded(m.height * r[1], r[2])]
       ELSE [m EXCEPT !.height = Rounded(m.width * r[2], r[1])]

-----------------------------------------------------------------------------
ContentInit == asked = Unset /\ verdict = Unset /\ frozen = Unset

Ask == asked = Unset /\ asked' \in Drafts /\ UNCHANGED <<verdict, frozen>>

Validate ==
  /\ asked # Unset /\ verdict = Unset
  /\ verdict' = ValidatePost(asked)
  /\ UNCHANGED <<asked, frozen>>

(* materializeAndSchedule: no schedule, or an instant that cannot be        *)
(* resolved, ends it; otherwise the payload is built once more from the     *)
(* columns, each item replaced by its variant, and frozen.                  *)
BuildPayload(d) ==
  LET merged == MergeContent(d.parent, d.over)
      ready  == ReadyOf(merged.media)
  IN  [text |-> merged.text, link |-> merged.link, comment |-> merged.comment,
       media |-> [i \in DOMAIN ready |-> ComputeVariantSpec(d.caps, Library[ready[i]])]]

MaterializeAndSchedule ==
  /\ verdict # Unset /\ frozen = Unset
  /\ verdict' = verdict /\ asked' = asked
  /\ frozen' =
       IF ~verdict.canSchedule THEN [error |-> "has_blockers"]
       ELSE IF asked.schedule = "none" THEN [error |-> "no_schedule"]
       ELSE IF ~verdict.resolvedAt THEN [error |-> "thrown"]
       ELSE [error |-> "none", post |-> BuildPayload(asked)]

ContentNext == Ask \/ Validate \/ MaterializeAndSchedule
ContentSpec == ContentInit /\ [][ContentNext]_contentVars

-----------------------------------------------------------------------------
(* The thread shown to the user holds every word of the text, whole and in  *)
(* order, and a part exceeds the network's limit only where one word or the *)
(* block of hashtags does.  splitIntoThread: "never mid-word".              *)
ThreadKeepsText ==
  verdict # Unset /\ "text_will_split" \in verdict.findings =>
    LET t == verdict.preview.text
        parts == verdict.thread
    IN  /\ FlattenSeq(parts) = Words(t)
        /\ \A i \in DOMAIN parts : Width(parts[i]) > asked.caps.limit =>
             Len(parts[i]) = 1 \/ parts[i] = t.tags

(* What is frozen is what the preview showed, field by field with explicit  *)
(* empty overrides kept, and every image and video has a shape the network  *)
(* takes, or a size nobody knows, cut and never stretched: what a crop      *)
(* cannot fix was blocked.  Of what the adapter's own rules would refuse,   *)
(* only sizes, a link's share of the length, threads and more items than    *)
(* the one a network takes get through.                                     *)
FrozenIsPreviewed ==
  frozen # Unset /\ frozen.error = "none" =>
    /\ \A f \in {"text", "link", "comment"} :
         /\ frozen.post[f] = verdict.preview[f]
         /\ asked.over[f] # Unset => frozen.post[f] = asked.over[f]
    /\ Len(frozen.post.media) = Len(verdict.preview.media)
    /\ \A i \in DOMAIN frozen.post.media :
         LET m == frozen.post.media[i] IN
         /\ m.status = "ready" /\ AspectMatches(asked.caps, m.width, m.height)
         /\ m.width <= verdict.preview.media[i].width
         /\ m.height <= verdict.preview.media[i].height
    /\ AdapterErrors(asked.caps, frozen.post) \subseteq
         {"image_too_large", "video_too_large"} \cup
         When(asked.caps.thread \/ frozen.post.link > 0, "text_too_long") \cup
         When(asked.caps.max = 1, "too_many_media")
=============================================================================
