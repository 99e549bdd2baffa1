---- MODULE MCPublisher ----
EXTENDS Publisher

CONSTANTS alice, bob

\* Alice publishes twice; Bob stores something, then sends what is refused.
MCStores == {<<bob, 1>>}
MCInvalid == {<<bob, 2>>}
====
