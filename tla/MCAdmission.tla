---------------------------- MODULE MCAdmission ----------------------------
(* Admission with three tokens of Google, every credential of the server and    *)
(* the gateway that has at most one fault, assertions also with every pair of   *)
(* times. Integers have eight bits; time.Unix wraps from 108 on.                *)
EXTENDS Admission

Address(a) == [address |-> a, written |-> "plain"]
Spelled(a) == [address |-> a, written |-> "spaced or capital"]
Listed == Address("ana")
Stranger == Address("eve")

\* The configuration that serves, and its faults.
Trusting == [clientID |-> "id", allowedEmails |-> {Spelled("ana"), Address("")}, sealingSecret |-> "secret",
             gatewayKey |-> "key", gatewayAudience |-> "here"]
Without == [Trusting EXCEPT !.gatewayKey = "", !.gatewayAudience = ""]
AllConfigs ==
  {Trusting, Without, [Without EXCEPT !.clientID = ""], [Without EXCEPT !.clientID = "spaced"],
   [Without EXCEPT !.allowedEmails = {Address("")}], [Without EXCEPT !.allowedEmails = {Listed, Address("nohost")}],
   [Without EXCEPT !.sealingSecret = ""], [Trusting EXCEPT !.gatewayKey = ""], [Trusting EXCEPT !.gatewayKey = "short"],
   [Trusting EXCEPT !.gatewayAudience = ""], [Trusting EXCEPT !.gatewayAudience = "spaced"]}

Sealed == [header |-> "sealed", opens |-> "access", subject |-> "s", email |-> Listed, verified |-> TRUE, expiresAt |-> 6]
SealedOnes ==
  {[Sealed EXCEPT !.expiresAt = e] : e \in 4 .. 7}
  \cup {[Sealed EXCEPT !.opens = o] : o \in {"purpose", "no"}}
  \cup {[Sealed EXCEPT !.subject = ""]}
  \cup {[Sealed EXCEPT !.email = e, !.verified = v] : e \in {Address(""), Stranger, Spelled("ana")}, v \in BOOLEAN}

Assertion == [header |-> "object", segments |-> 3, typ |-> "exact", keyed |-> TRUE, signed |-> TRUE, claims |-> TRUE,
              ours |-> TRUE, aud |-> "here", subject |-> "s", email |-> "eve", iat |-> 4, exp |-> 6, token |-> "t2"]
Assertions ==
  {[Assertion EXCEPT !.iat = i, !.exp = e] : i \in {-1, 0, 1, 4, 5, 6, 107, 108, 127}, e \in {-128, -1, 4, 5, 6, 7, 8, 107, 127}}
  \cup {[Assertion EXCEPT !.header = h, !.segments = n, !.typ = t] :
          h \in {"opaque", "broken", "padded", "object"}, n \in {2, 3}, t \in {"absent", "notstring", "exact", "family", "other"}}
  \cup {[Assertion EXCEPT !.keyed = FALSE], [Assertion EXCEPT !.signed = FALSE], [Assertion EXCEPT !.claims = FALSE],
        [Assertion EXCEPT !.ours = FALSE], [Assertion EXCEPT !.aud = "there"], [Assertion EXCEPT !.subject = ""],
        [Assertion EXCEPT !.email = ""]}

AllCredentials ==
  {[header |-> h] : h \in {"absent", "repeated", "malformed"}} \cup SealedOnes \cup Assertions
  \cup {[Assertion EXCEPT !.header = "opaque", !.segments = 1, !.token = t] : t \in Tokens}

\* "t1" is of the listed address; "t3" of a stranger who has not verified it; "t2",
\* what Google makes of an assertion that reads as none, is no token of this
\* client (Foreign).
AllClaims ==
  [t \in Tokens |-> IF t = "t3" THEN [subject |-> "s", email |-> Stranger, verified |-> FALSE]
                     ELSE [subject |-> "s", email |-> Listed, verified |-> TRUE]]
=============================================================================
