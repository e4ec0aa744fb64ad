-------------------------------- MODULE Upstream --------------------------------
(***************************************************************************)
(* The upstream providers (internal/provider), as the route of a message   *)
(* (FailoverRoute) and the admission of a claim (ProviderControls) know    *)
(* them.                                                                   *)
(***************************************************************************)
CONSTANTS
    Providers,
    NoProvider      \* no provider: NULL

ASSUME UpstreamAssumption == NoProvider \notin Providers
================================================================================
