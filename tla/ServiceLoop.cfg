SPECIFICATION Spec
CONSTANTS
    Requests = {r1, r2}
    r1 = r1
    r2 = r2
    Bodies <- WebhookBodies
    Capacity = 1
    Free = Free
INVARIANT TypeOK
INVARIANT ReadyMeansAdmitted
INVARIANT AnsweredMeansSettled
INVARIANT WorkIsBounded
INVARIANT ServesOpenWorker
PROPERTY ProbesAnswered
PROPERTY RequestsAnswered
