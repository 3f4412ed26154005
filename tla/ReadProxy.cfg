SPECIFICATION Spec
CONSTANTS
    Replicas = {r1, r2}
    Upstreams = 2
    Have = {1, 2}
    Wrong = {1}
    ClientPush = TRUE
    Redirects = {r1}
INVARIANTS NarinfoHasNar InformedGetsNar PublishedIsFound
PROPERTY RequestsEnd
