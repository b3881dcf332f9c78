---------------------------- MODULE MCAuthRecords ----------------------------
(* Small worlds: two organizations with an invitation and one member more  *)
(* than a listing sees, a user with what the deletion callback goes        *)
(* through and one account too many, a user with credentials.              *)
EXTENDS AuthRecords

CONSTANTS n1, n2

MCNames == {n1, n2}

OrgWorld == <<Fresh("user", n1, 0, "never"), Fresh("user", n2, 0, "never"),
              Fresh("org", n1, 0, "never"), Fresh("org", n2, 0, "never"),
              Fresh("member", n1, 3, "never"), Fresh("member", n2, 3, "never"),
              Fresh("member", n1, 4, "never"), Fresh("invitation", n1, 3, "soon")>>

UserWorld == <<Fresh("user", n1, 0, "never"), Fresh("session", n1, n1, "later"),
               Fresh("account", n1, n1, "never"), Fresh("account", n2, n1, "never"),
               Fresh("account", n1, n1, "never"), Fresh("verification", n1, n1, "later")>>

KeyWorld == <<Fresh("user", n1, 0, "never"), Fresh("two_factor", n1, 0, "never"),
              Fresh("api_key", n1, n1, "soon"), Fresh("passkey", n1, n1, "never"),
              Fresh("verification", n2, n1, "soon")>>

MCWorlds == {OrgWorld, UserWorld, KeyWorld}
=============================================================================
