----------------------------- MODULE AutoPolicy -----------------------------
(***************************************************************************)
(* The Worker's two readers of .rvw/policies/auto.yaml at the base of a     *)
(* pull request: cloud/worker/src/triggers.ts decides which events are      *)
(* reviewed and falls back to its defaults, publication-policy.ts decides   *)
(* what a review may publish and closes down instead.                       *)
(*                                                                         *)
(* A mapping of the document is a function whose domain is the keys it has; *)
(* a scalar that has the wrong type is a value outside of every schema.     *)
(* YAML's scalar syntax is left out, and a pattern (fnmatch, a regular      *)
(* expression) is the set of the values it matches.                         *)
(***************************************************************************)
EXTENDS Naturals, Sequences, Optional

Within(doc, required, allowed) ==
  required \subseteq DOMAIN doc /\ DOMAIN doc \subseteq allowed

(* Every key a mapping has is known, and its value is one of the schema's.      *)
Conforms(doc, required, schema) ==
  /\ Within(doc, required, DOMAIN schema)
  /\ \A key \in DOMAIN doc : doc[key] \in schema[key]

Sub(doc, key) == IF key \in DOMAIN doc THEN doc[key] ELSE << >>

OrDefault(doc, default) ==
  [key \in DOMAIN default |-> IF key \in DOMAIN doc THEN doc[key] ELSE default[key]]

-----------------------------------------------------------------------------
(* publication-policy.ts.                                                    *)

Severities == {"suggestion", "warning", "blocker"}
Channels   == {"checks", "review"}

CheckPolicy     == [on_block |-> {"failure", "neutral"}, on_pass |-> {"success", "neutral"}]
InlinePolicy    == [severity_at_least |-> Severities, max_comments |-> Nat \cup {None}]
ReviewControls  == [on_block |-> {"comment", "request_changes"},
                    on_pass |-> {"comment", "approve", "none"},
                    dismiss_on_pass |-> BOOLEAN,
                    approve_requires_explicit_opt_in |-> BOOLEAN]
ThreadControls  == [resolve_on_fix |-> BOOLEAN, reuse_open_thread |-> BOOLEAN]
PublishKeys     == {"channels", "checks", "inline"} \cup DOMAIN ReviewControls

defaultPublicationPolicy ==
  [channels |-> Channels,
   checks   |-> [on_block |-> "failure", on_pass |-> "success"],
   inline   |-> [severity_at_least |-> "suggestion", max_comments |-> None]]

conservativePublicationPolicy == [defaultPublicationPolicy EXCEPT !.channels = {"checks"}]

(* Approval needs its own opt-in beside on_pass.                               *)
validReviewControls(publish) ==
  LET given == [key \in DOMAIN publish \cap DOMAIN ReviewControls |-> publish[key]] IN
    /\ Conforms(given, {}, ReviewControls)
    /\ "on_pass" \in DOMAIN given /\ given.on_pass = "approve"
         => /\ "approve_requires_explicit_opt_in" \in DOMAIN given
            /\ ~given.approve_requires_explicit_opt_in

validPublish(publish) ==
  /\ Within(publish, {}, PublishKeys)
  /\ validReviewControls(publish)
  /\ "channels" \in DOMAIN publish => publish.channels \in (SUBSET Channels) \ {{}}
  /\ Conforms(Sub(publish, "checks"), {}, CheckPolicy)
  /\ Conforms(Sub(publish, "inline"), {}, InlinePolicy)

PublicationLimit == 32768

(* The strict subset of the policy that decides what is published.              *)
validPublication(file, maximum) ==
  /\ file.size <= maximum
  /\ "publish_state" \in DOMAIN file.doc
  /\ file.doc.publish_state \in {"comment", "none"}
  /\ Conforms(Sub(file.doc, "threads"), {}, ThreadControls)
  /\ validPublish(Sub(file.doc, "publish"))

publicationOf(doc) ==
  LET publish == Sub(doc, "publish")
      channels == IF doc.publish_state = "none" THEN {"checks"} ELSE Channels
  IN [channels |-> OrDefault(publish, [channels |-> channels]).channels,
      checks   |-> OrDefault(Sub(publish, "checks"), defaultPublicationPolicy.checks),
      inline   |-> OrDefault(Sub(publish, "inline"), defaultPublicationPolicy.inline)]

(* No file is the default; a file it cannot read is the conservative policy, and  *)
(* start refuses to go on (record.publishPolicyFailure).                        *)
getPublicationPolicy(file) ==
  IF ~file.exists
    THEN [policy |-> defaultPublicationPolicy, failure |-> FALSE]
  ELSE IF validPublication(file, PublicationLimit)
    THEN [policy |-> publicationOf(file.doc), failure |-> FALSE]
  ELSE [policy |-> conservativePublicationPolicy, failure |-> TRUE]

-----------------------------------------------------------------------------
(* triggers.ts.                                                              *)

DEFAULT_PULL_REQUEST_ACTIONS == {"opened", "synchronize", "reopened", "ready_for_review"}
DEFAULT_MENTION_SURFACES == {"issue_comment", "pull_request_review_comment"}
AUTHOR_ASSOCIATIONS ==
  {"OWNER", "MEMBER", "COLLABORATOR", "CONTRIBUTOR", "FIRST_TIME_CONTRIBUTOR",
   "FIRST_TIMER", "NONE", "MANNEQUIN"}
DEFAULT_MENTION_ALLOW == {"OWNER", "MEMBER", "COLLABORATOR"}

PullRequestEvents == [enabled |-> BOOLEAN, actions |-> SUBSET DEFAULT_PULL_REQUEST_ACTIONS]
MentionEvents == [enabled |-> BOOLEAN, surfaces |-> SUBSET DEFAULT_MENTION_SURFACES,
                  allow |-> SUBSET AUTHOR_ASSOCIATIONS]

defaultTriggersPolicy ==
  [mode |-> "denylist", drafts |-> "skip", rules |-> << >>, dedupe_same_head |-> TRUE,
   pull_request |-> [enabled |-> TRUE, actions |-> DEFAULT_PULL_REQUEST_ACTIONS],
   mention |-> [enabled |-> TRUE, surfaces |-> DEFAULT_MENTION_SURFACES,
                allow |-> DEFAULT_MENTION_ALLOW]]

Conditions == {"author", "headBranch", "baseBranch", "labels", "title"}

(* A rule has a name of its own and at least one condition.                    *)
validRules(rules) ==
  /\ \A i \in DOMAIN rules :
       Within(rules[i], {"name"}, {"name"} \cup Conditions) /\ DOMAIN rules[i] # {"name"}
  /\ \A i, j \in DOMAIN rules : rules[i].name = rules[j].name => i = j

Switches == [mode |-> {"denylist", "allowlist"}, drafts |-> {"skip", "review"},
             dedupe_same_head |-> BOOLEAN]

(* An allow list without rules would select nothing and is refused.             *)
validTriggers(doc) ==
  LET given == [key \in DOMAIN doc \cap DOMAIN Switches |-> doc[key]]
      events == Sub(doc, "events")
      rules == Sub(doc, "rules")
  IN /\ Within(doc, {}, DOMAIN Switches \cup {"rules", "events"})
     /\ Conforms(given, {}, Switches)
     /\ Within(events, {}, {"pull_request", "mention"})
     /\ Conforms(Sub(events, "pull_request"), {}, PullRequestEvents)
     /\ Conforms(Sub(events, "mention"), {}, MentionEvents)
     /\ validRules(rules)
     /\ OrDefault(given, defaultTriggersPolicy).mode = "allowlist" => rules # << >>

parseTriggersPolicy(doc) ==
  LET events == Sub(doc, "events") IN
    [key \in DOMAIN defaultTriggersPolicy |->
       IF key \in {"pull_request", "mention"}
         THEN OrDefault(Sub(events, key), defaultTriggersPolicy[key])
         ELSE OrDefault(doc, defaultTriggersPolicy)[key]]

AutoKeys == {"promote_to_blocker", "drop", "block_when", "publish_state"}
OptionalKeys == {"allow_language_fallback", "publish", "threads", "triggers"}
Promotion == [agreement_at_least |-> Nat \ {0}, severity_at_least |-> Severities]
Dropping  == [agreement_at_most |-> Nat, severity_at_most |-> Severities]
Gate      == [severity_at_least |-> Severities, confirmed_only |-> BOOLEAN]

validateAutoPolicy(doc) ==
  /\ Within(doc, AutoKeys, AutoKeys \cup OptionalKeys)
  /\ Conforms(doc.promote_to_blocker, DOMAIN Promotion, Promotion)
  /\ Conforms(doc.drop, DOMAIN Dropping, Dropping)
  /\ Conforms(doc.block_when, {"severity_at_least"}, Gate)
  /\ "allow_language_fallback" \in DOMAIN doc => doc.allow_language_fallback \in BOOLEAN

TriggersLimit == 65536

(* The publication reader's checks first, at the size limit of this reader.       *)
parsesTriggersYaml(file) ==
  /\ validPublication(file, TriggersLimit)
  /\ validateAutoPolicy(file.doc)
  /\ validTriggers(Sub(file.doc, "triggers"))

(* No file, or one that cannot be read, is the default policy; the failure is     *)
(* reported with the trigger's facts.                                         *)
getTriggerPolicy(file) ==
  IF ~file.exists
    THEN [policy |-> defaultTriggersPolicy, failure |-> FALSE]
  ELSE IF parsesTriggersYaml(file)
    THEN [policy |-> parseTriggersPolicy(Sub(file.doc, "triggers")), failure |-> FALSE]
  ELSE [policy |-> defaultTriggersPolicy, failure |-> TRUE]

matchTriggerRule(rule, metadata) ==
  \A key \in DOMAIN rule \ {"name"} :
    IF key = "labels" THEN rule.labels \cap metadata.labels # {}
                      ELSE metadata[key] \in rule[key]

(* The deny list skips what a rule matches, the allow list what none matches; a    *)
(* draft is skipped before the rules are read.                                 *)
evaluateTrigger(policy, metadata, draft) ==
  \/ draft /\ policy.drafts = "skip"
  \/ (policy.mode = "denylist")
       = (\E i \in DOMAIN policy.rules : matchTriggerRule(policy.rules[i], metadata))

=============================================================================
