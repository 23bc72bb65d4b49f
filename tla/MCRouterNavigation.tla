-------------------------- MODULE MCRouterNavigation --------------------------
EXTENDS RouterNavigation

CONSTANTS a, b

AllOptions == Options

DefaultOptions ==
    {[canceledNavigationResolution |-> "replace", urlUpdateStrategy |-> "deferred"]}
=============================================================================
