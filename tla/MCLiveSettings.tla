-------------------------- MODULE MCLiveSettings --------------------------
(* Small instances of LiveSettings for TLC. *)
EXTENDS LiveSettings, TLC

CONSTANTS tz, quiet, mode, issuer

MCClass ==
    LET all == tz :> "timezone" @@ quiet :> "notifications"
               @@ mode :> "auth" @@ issuer :> "auth"
    IN Restrict(all, Keys)

MCInit == Restrict(tz :> 0 @@ quiet :> 0 @@ mode :> "oidc" @@ issuer :> 0, Keys)

(* A change of the notifier's two keys, one of the issuer, a change to     *)
(* open mode and one back.                                                 *)
MCBodies == {tz :> 1 @@ quiet :> 1, issuer :> 1, mode :> "open", mode :> "oidc"}

WriterSymmetry == Permutations(Writers)
=============================================================================
