SPECIFICATION Spec
CONSTANTS
    s1 = s1
    s2 = s2
    w1 = w1
    w2 = w2
    Session = {s1, s2}
    Worker = {w1, w2}
    WorkerOf <- MCWorkerOf
    DataLimit <- MCDataLimit
    NoMsg = NoMsg
PROPERTIES
    DestroyedByLogicThread
