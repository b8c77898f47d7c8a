-------------------------------- MODULE Apis --------------------------------
(***************************************************************************)
(* What the adapters of services with an API of their own ask for, and     *)
(* what they make of the answers (vasco/adapters: steam, itad, github,     *)
(* npm, gitlab, shopify, phabricator, wikimedia, scholar, youtube,         *)
(* wayback).  Operators only; Adapters is the machine that asks and waits. *)
(*                                                                         *)
(* A request is named by the part of the envelope it is for, "main" for    *)
(* the one that decides.  A job is what the url asks of a site, with the   *)
(* facts of the thing behind it and of the configuration.  For each site:  *)
(*   ...Parts    asked for first, at once                                  *)
(*   ...Then     asked for when all of those have been answered            *)
(*   ...Result   the outcome when nothing is left to ask                   *)
(* got is the answer to each part.  Fields that are copied are left out.   *)
(***************************************************************************)
EXTENDS Listings

(* An envelope with these parts in it; and no envelope: the page is left   *)
(* to the tiers (GitHubUnavailable, WikimediaUnavailable, NotShopify,      *)
(* NotGitLab).                                                             *)
Gives(parts, warnings) == [Outcome("ok", <<>>, warnings, 0) EXCEPT !.parts = parts]
Declines == Fails("declined")

(***************************************************************************)
(* Answers.  Through the tiers of the chain: a body with what the parser   *)
(* looks for, one that says there is nothing, one without it, the same     *)
(* behind a login, or none; a reason that is not OK, with a page or        *)
(* without; or an exception.  From an adapter's own client: a body, the    *)
(* page of some server instead of JSON, the 404 of an API or of a server,  *)
(* a refusal (401, 403, 429) or a 5xx of either, or no response.           *)
(***************************************************************************)
Tier == {"good", "none", "other", "odd", "login", "void", "blocked", "blocked_void",
         "not_found", "timeout", "late", "closed", "raised"}
Web == {"good", "none", "other", "page", "absent", "absent_page", "denied",
        "denied_page", "broken", "broken_page", "timeout", "unreachable"}

TierOk == {"good", "none", "other", "odd", "login", "void"}
Void == {"void", "blocked_void", "not_found", "timeout"}
TierRaises == {"late", "closed", "raised"}

(* Slip in TierReason: no page is taken for no such page.                *)
TierReasonMissing(a) ==
  CASE a \in Void -> "NOT_FOUND"
    [] a = "blocked" -> "BLOCKED_BOT"
    [] OTHER -> "ok"

(* The reason the chain gives with an answer that is not OK.               *)
TierReason(a) ==
  CASE a \in {"blocked", "blocked_void"} -> "BLOCKED_BOT"
    [] a = "not_found" -> "NOT_FOUND"
    [] a = "timeout" -> "TIMEOUT"
    [] OTHER -> "ok"

(* classify_browser_error, and the plain form of it.                       *)
RaisedReason(a) ==
  CASE a = "late" -> "TIMEOUT"
    [] a = "closed" -> "BLOCKED_BOT"
    [] OTHER -> "SERVER_ERROR"
PlainRaisedReason(a) == IF a = "late" THEN "TIMEOUT" ELSE "SERVER_ERROR"

(* _api_get: a response, whatever its status, is OK.                       *)
NoResponse == {"timeout", "unreachable"}
Absent == {"absent", "absent_page"}
Json == {"good", "none", "other"}
WebReason(a) == IF a = "timeout" THEN "TIMEOUT" ELSE "SERVER_ERROR"

(***************************************************************************)
(* acquire_html: what most page adapters do before they parse.             *)
(***************************************************************************)
Acquired(a) == a \in TierOk \ {"void"}
NotAcquired(a) ==
  Fails(IF a \in TierRaises THEN RaisedReason(a)
        ELSE IF a = "void" THEN "SERVER_ERROR" ELSE TierReason(a))

(***************************************************************************)
(* Steam and, with a key, IsThereAnyDeal: the details decide, the rest is  *)
(* best effort.  The history asks for the game first, then for two things  *)
(* at once; one that fails loses both.  A reason is passed on as it is,    *)
(* even the OK of an empty body.                                           *)
(***************************************************************************)
SteamParts(job) ==
  IF job.kind = "search" THEN {"main"}
  ELSE {"main", "reviews", "players"}
         \union (IF "key" \in job.facts THEN {"game"} ELSE {})

WebRaises == Web \ Json
PricesLost(got) == \E p \in {"low", "history"} \intersect DOMAIN got : got[p] \in WebRaises
SteamHas(got) ==
  LET has == {p \in DOMAIN got \ {"main", "game"} : got[p] = "good"}
  IN  IF PricesLost(got) THEN has \ {"low", "history"} ELSE has

(* Slip in SteamResult: a part that is only best effort fails the game.  *)
SteamResultOfAll(job, got) ==
  IF \E p \in DOMAIN got : got[p] \in TierRaises THEN Fails("SERVER_ERROR")
  ELSE IF got["main"] = "good" THEN Gives({"main"} \union SteamHas(got), {}) ELSE Rot

SteamResult(job, got) ==
  LET a == got["main"]
  IN  CASE a \in TierRaises -> Fails(PlainRaisedReason(a))
        [] a \notin TierRaises \union TierOk \/ a = "void" -> Fails(TierReason(a))
        [] a \in {"other", "odd", "login"} -> Rot
        [] a = "none" /\ job.kind = "app" -> Fails("NOT_FOUND")
        [] a = "none" /\ job.kind # "app" -> Gives({}, {"no_results"})
        [] OTHER -> Gives({"main"} \union SteamHas(got), {})

(***************************************************************************)
(* GitHub: the repository, then the names a readme may have, one after     *)
(* the other, where an error is as good as a missing file.                 *)
(***************************************************************************)
ReadmeNames == <<"README.md", "README.rst", "readme.md", "README", "Readme.md">>
Missed(got) == {i \in DOMAIN ReadmeNames :
                  ReadmeNames[i] \in DOMAIN got /\ got[ReadmeNames[i]] # "good"}
ReadmeFound(got) == \E i \in DOMAIN ReadmeNames :
                      ReadmeNames[i] \in DOMAIN got /\ got[ReadmeNames[i]] = "good"

GitHubThen(got) ==
  IF got["main"] # "good" \/ ReadmeFound(got) \/ Missed(got) = DOMAIN ReadmeNames THEN {}
  ELSE {ReadmeNames[Cardinality(Missed(got)) + 1]}

GitHubResult(job, got) ==
  IF got["main"] # "good" THEN Declines
  ELSE Gives({"main"} \union (IF ReadmeFound(got) THEN {"readme"} ELSE {}),
             (IF "archived" \in job.facts THEN {"archived"} ELSE {})
               \union (IF ReadmeFound(got) THEN {} ELSE {"no_readme"}))

(***************************************************************************)
(* npm: the registry decides; a readme it lacks may come from the          *)
(* repository.                                                             *)
(***************************************************************************)
NpmKnown(job, got) == got["main"] = "good" /\ "unknown_version" \notin job.facts
NpmThen(job, got) ==
  IF NpmKnown(job, got) /\ "readme" \notin job.facts /\ "repository" \in job.facts
  THEN {"readme"} ELSE {}

NpmReadmeWarnings(job, fetched) ==
  IF "readme" \in job.facts
  THEN IF "old_version" \in job.facts THEN {"readme_from_latest"} ELSE {}
  ELSE IF fetched THEN {"readme_from_repository"} ELSE {"no_readme"}

NpmResult(job, got) ==
  LET a == got["main"]
      fetched == "readme" \in DOMAIN got /\ got["readme"] = "good"
  IN  CASE a \in NoResponse -> Fails(WebReason(a))
        [] a \in Absent -> Fails("NOT_FOUND")
        [] a \in {"denied", "denied_page", "broken", "broken_page"} -> Fails("SERVER_ERROR")
        [] a \in {"none", "other", "page"} -> Rot
        [] a = "good" /\ "unknown_version" \in job.facts -> Fails("NOT_FOUND")
        [] OTHER ->
             Gives({"main"}
                     \union (IF got["downloads"] = "good" THEN {"downloads"} ELSE {})
                     \union (IF "readme" \in job.facts \/ fetched THEN {"readme"} ELSE {}),
                   NpmReadmeWarnings(job, fetched)
                     \union (job.facts \intersect {"deprecated"}))

(***************************************************************************)
(* GitLab: the object decides, or, for a host that is probed, tells        *)
(* whether there is a GitLab at all.                                       *)
(***************************************************************************)
GitLabParts(job) == IF job.kind = "thread" THEN {"main", "notes"} ELSE {"main"}
GitLabThen(job, got) ==
  IF job.kind = "project" /\ got["main"] = "good" /\ "readme_url" \in job.facts
  THEN {"readme"} ELSE {}

(* _resolve_main: a stable answer that is no JSON settles that the host is *)
(* none, JSON without the object settles nothing.  The message of an API   *)
(* counts as a missing object, whatever its status.                        *)
GitLabVerdict(a) ==
  CASE a = "good" -> "yes"
    [] a \in {"page", "absent_page", "denied_page"} -> "no"
    [] OTHER -> "unknown"

GitLabFailure(a) ==
  CASE a \in NoResponse -> Fails(WebReason(a))
    [] a \in Absent \union {"denied", "broken"} -> Fails("NOT_FOUND")
    [] OTHER -> Rot

(* Slip in GitLabResult: a probe that misses fails the url.              *)
GitLabResultOfKnown(probe, got) ==
  IF got["main"] = "good"
  THEN Gives({p \in DOMAIN got : got[p] = "good"}, {})
  ELSE GitLabFailure(got["main"])

GitLabResult(probe, got) ==
  IF got["main"] = "good"
  THEN Gives({p \in DOMAIN got : got[p] = "good"}, {})
  ELSE IF probe THEN Declines ELSE GitLabFailure(got["main"])

(***************************************************************************)
(* Shopify: the platform's JSON through the tiers.  A body of another      *)
(* shape settles that a probed domain is no shop, one that cannot be       *)
(* taken apart at all settles nothing; a shop is remembered unless it is   *)
(* known anyway.                                                           *)
(***************************************************************************)
ShopifyIsOne(job, a) == a = "good" \/ (a = "none" /\ job.kind = "collection")
ShopifyIsNone(job, a) == a \in TierOk \ {"void", "odd"} /\ ~ShopifyIsOne(job, a)
ShopifyVerdict(job, probe, a) ==
  CASE ShopifyIsOne(job, a) -> "yes"
    [] probe /\ ShopifyIsNone(job, a) -> "no"
    [] OTHER -> "unknown"

ShopifyFailure(a) ==
  CASE a \in TierRaises -> Fails(PlainRaisedReason(a))
    [] a \notin TierRaises \union TierOk \/ a = "void" -> Fails(TierReason(a))
    [] OTHER -> Rot

ShopifyResult(job, probe, got, currency) ==
  LET a == got["main"]
  IN  IF ~ShopifyIsOne(job, a) THEN IF probe THEN Declines ELSE ShopifyFailure(a)
      ELSE Gives((IF a = "good" THEN {"main"} ELSE {})
                   \union (IF currency = "known" THEN {"currency"} ELSE {}),
                 IF a = "none" THEN {"no_results"} ELSE {})

(***************************************************************************)
(* Phabricator: a page is parsed whatever reason comes with it, and the    *)
(* wall is looked for when the parse has failed.                           *)
(***************************************************************************)
PhabricatorResult(job, got) ==
  LET a == got["main"]
  IN  CASE a \in TierRaises -> Fails(RaisedReason(a))
        [] a = "not_found" -> Fails("NOT_FOUND")
        [] a = "void" -> Fails("EMPTY_BODY")
        [] a \in Void \ {"not_found", "void"} -> Fails(TierReason(a))
        [] a = "login" -> Fails("LOGIN_REQUIRED")
        [] a = "good" -> Gives({"main"}, {})
        [] a = "none" /\ job.kind = "search" -> Gives({}, {"no_results"})
        [] OTHER -> Rot

(***************************************************************************)
(* Wikimedia Enterprise: a token, unless one is held, the title behind a   *)
(* redirect, and the article: structured where there may be one, which may *)
(* be without text, else as it is.  A token that is rejected is dropped,   *)
(* and the request made once more with a new one.  What the service cannot *)
(* give is left to the tiers.                                              *)
(***************************************************************************)
WikimediaParts(token) == IF token THEN {"redirect"} ELSE {"token"}
Renewed(e) == IF e = "structured" THEN "structured_token" ELSE "article_token"
Again(e) == IF e = "structured" THEN "structured_again" ELSE "article_again"

(* request(): how an endpoint has answered, or what is to be done next.    *)
Endpoint(got, e) ==
  IF e \notin DOMAIN got THEN "ask"
  ELSE IF got[e] # "rejected" THEN got[e]
  ELSE IF Renewed(e) \notin DOMAIN got THEN "renew"
  ELSE IF got[Renewed(e)] # "good" THEN "unavailable"
  ELSE IF Again(e) \notin DOMAIN got THEN "ask_again"
  ELSE IF got[Again(e)] = "rejected" THEN "unavailable" ELSE got[Again(e)]

Passed(job, got) ==
  \/ "beta" \notin job.facts
  \/ Endpoint(got, "structured") = "none"
  \/ Endpoint(got, "structured") = "good" /\ "outline" \notin job.facts
Asked(job, got) == IF Passed(job, got) THEN "article" ELSE "structured"

WikimediaThen(job, got) ==
  LET e == Asked(job, got)
  IN  IF "token" \in DOMAIN got /\ got["token"] # "good" THEN {}
      ELSE IF "redirect" \notin DOMAIN got THEN {"redirect"}
      ELSE CASE Endpoint(got, e) = "ask" -> {e}
             [] Endpoint(got, e) = "renew" -> {Renewed(e)}
             [] Endpoint(got, e) = "ask_again" -> {Again(e)}
             [] OTHER -> {}

WikimediaResult(job, got) ==
  IF "redirect" \notin DOMAIN got \/ Endpoint(got, Asked(job, got)) # "good" THEN Declines
  ELSE IF Asked(job, got) = "article" /\ "text" \notin job.facts
  THEN Fails("UNSUPPORTED_CONTENT_TYPE")
  ELSE Gives({Asked(job, got)}, {})

(***************************************************************************)
(* Scholar: the identifier becomes a DOI, the sources are asked about it   *)
(* at once, and what they know is merged.  A source that fails is one that *)
(* knows nothing.  The full text is fetched when the work is open and a    *)
(* copy has been named.                                                    *)
(***************************************************************************)
ScholarBase == {"crossref", "openalex", "s2", "europepmc"}
ScholarSources(job) ==
  ScholarBase \union (IF "email" \in job.facts THEN {"unpaywall"} ELSE {})
ScholarParts(job) ==
  IF job.kind \in {"doi", "arxiv"} THEN ScholarSources(job) ELSE {"doi"}

(* _json_body and _from_...: what a source is known to have said.          *)
Told(got) == {s \in DOMAIN got \ {"doi", "full_text"} : got[s] = "good"}
Titled(got) == Told(got) # {}

(* _assemble: Unpaywall's word on open access counts before OpenAlex's.    *)
OpenAccess(job, got) ==
  IF "unpaywall" \in Told(got) THEN "open" \in job.facts
  ELSE "openalex" \in Told(got) /\ "open" \in job.facts
Abstract(job, got) ==
  "abstract" \in job.facts /\ Told(got) \intersect ScholarBase # {}

(* _pick_full_text: where a copy is named.                                 *)
Copy(job, got) ==
  \/ "pmc_pdf" \in job.facts /\ "europepmc" \in Told(got)
  \/ "pdf" \in job.facts /\ Told(got) \intersect {"unpaywall", "openalex", "s2"} # {}

ScholarThen(job, got) ==
  IF DOMAIN got = {"doi"}
  THEN IF got["doi"] = "good" THEN ScholarSources(job) ELSE {}
  ELSE IF /\ "full_text" \notin DOMAIN got /\ "full_text" \in job.facts
          /\ Titled(got) /\ OpenAccess(job, got) /\ Copy(job, got)
       THEN {"full_text"} ELSE {}

ScholarResult(job, got) ==
  IF ~Titled(got) THEN Fails("NOT_FOUND")
  ELSE LET text == "full_text" \in DOMAIN got
           has == Told(got) \union (IF text /\ got["full_text"] = "good"
                                    THEN {"full_text"} ELSE {})
       IN  Gives(has,
             (IF job.kind = "pii" THEN {"resolved_via_pii"} ELSE {})
               \union (IF "retracted" \in job.facts /\ "openalex" \in Told(got)
                       THEN {"retracted"} ELSE {})
               \union (IF Abstract(job, got) THEN {} ELSE {"no_abstract"})
               \union (IF text /\ got["full_text"] # "good"
                       THEN {"full_text_unavailable"} ELSE {})
               \union (IF OpenAccess(job, got) THEN {} ELSE {"paywalled"}))

(***************************************************************************)
(* YouTube: the metadata of yt-dlp, then the captions and the sponsored    *)
(* segments at once; captions that fail end the wait for the segments.     *)
(* yt-dlp tells by its message why it failed, and "none" is a file that    *)
(* was not written, or segments that are not there.  The deadline is that  *)
(* of both: it may pass ("late") for want of the segments alone.           *)
(***************************************************************************)
YtDlp == {"good", "none", "other", "login", "gone", "timed_out", "late", "elapsed", "raised"}
YtDlpReason(a) ==
  CASE a = "login" -> "LOGIN_REQUIRED"
    [] a = "gone" -> "NOT_FOUND"
    [] a \in {"timed_out", "late"} -> "TIMEOUT"
    [] a = "elapsed" -> "DEADLINE_EXCEEDED"
    [] OTHER -> "SERVER_ERROR"
YtDlpFails == {"login", "gone", "timed_out", "late", "elapsed", "raised"}

YouTubeThen(job, got) ==
  IF job.kind = "video" /\ DOMAIN got = {"main"} /\ got["main"] \notin YtDlpFails
     /\ "captions" \in job.facts
  THEN {"captions", "segments"} ELSE {}

(* _build_collection_envelope, _captionless_video_envelope, _fetch_video.  *)
YouTubeList(a) ==
  CASE a = "other" -> Rot
    [] a = "none" -> Gives({}, {"no_results"})
    [] OTHER -> Gives({"main"}, {})
YouTubeVideo(job, got) ==
  LET failed == {p \in {"captions", "segments"} \intersect DOMAIN got :
                   got[p] \in YtDlpFails}
      cut == got["segments"] = "good" /\ "all_sponsored" \in job.facts
  IN  IF failed # {} THEN Fails(YtDlpReason(got[CHOOSE p \in failed : TRUE]))
      ELSE IF got["captions"] # "good" \/ cut THEN Fails("UNSUPPORTED_CONTENT_TYPE")
      ELSE Gives({"main", "captions"},
                 IF got["segments"] \in Json \union Absent THEN {}
                 ELSE {"sponsorblock_unavailable"})
YouTubeResult(job, got) ==
  IF got["main"] \in YtDlpFails THEN Fails(YtDlpReason(got["main"]))
  ELSE IF job.kind = "list" THEN YouTubeList(got["main"])
  ELSE IF "captions" \in job.facts THEN YouTubeVideo(job, got)
  ELSE IF "description" \in job.facts THEN Gives({"main"}, {"no_captions"})
  ELSE Fails("UNSUPPORTED_CONTENT_TYPE")

(***************************************************************************)
(* Wayback: the url as it is, then with its slash toggled, unless the      *)
(* first was answered at all.                                              *)
(***************************************************************************)
(* Slip in WaybackThen: the second form is asked for until it is there.  *)
WaybackThenAgain(job, got) ==
  IF "path" \in job.facts /\ ~\E p \in DOMAIN got : got[p] \in {"good", "none"}
  THEN {"toggled"} ELSE {}

WaybackThen(job, got) ==
  IF "path" \in job.facts /\ got["main"] \notin {"good", "none"} /\ "toggled" \notin DOMAIN got
  THEN {"toggled"} ELSE {}
WaybackResult(got) ==
  IF \E p \in DOMAIN got : got[p] = "good" THEN Gives({"snapshot"}, {})
  ELSE Fails("no_snapshot")
=============================================================================
