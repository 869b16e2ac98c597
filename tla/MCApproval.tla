----------------------------- MODULE MCApproval -----------------------------
EXTENDS Approval, TLC

CONSTANTS s1, s2, s3, t1, t2

MCStreams == {s1, s2, s3}
MCTools == {t1, t2}

Ask(T) == [tools |-> T, action |-> "ask"]
Deny(T) == [tools |-> T, action |-> "deny"]
Allow(T) == [tools |-> T, action |-> "allow"]

\* No rule, the ASK rules of require_approval_for_tools, and rules that overlap.
MCPolicies == {<<>>, <<Ask({t1, t2})>>, <<Deny({t1}), Allow({t1, t2})>>}

Hinted(h1, h2) == [t \in MCTools |-> IF t = t1 THEN h1 ELSE h2]
MCHintings == {Hinted("plain", "destructive")}
MCDelegate == {t2}
MCHooked == {t1}

\* Streams differ only in what they turn out to do.
Symmetry == Permutations(Streams)
=============================================================================
